---- MODULE Spec2Model ----
(***************************************************************************)
(* Element memoization and operator dispatch of the algebra classes of     *)
(* boring_math.abstract_algebra.algebras.                                  *)
(*                                                                         *)
(* An algebra instance owns a dict (the registry, _elements) from          *)
(* representations to element objects.  Element objects live in a heap;    *)
(* an object's identity is its index in the heap, so that "x is y" is      *)
(* equality of heap indices and "x == y" is BaseElement.__eq__.            *)
(*                                                                         *)
(* The client holds a reference to every element an operation returned     *)
(* to it.  An object that setdefault() builds as its default and then      *)
(* drops because the key is present is never reachable, and is not given   *)
(* a heap index.                                                           *)
(***************************************************************************)
EXTENDS Integers, Sequences, FiniteSets, TLC

\* Bounds of the model.
Modulus == 3
MaxRaw == 3
MaxObj == 3
MaxExp == 3

\* Depth of the call stack at which the interpreter raises RecursionError.
RecursionLimit == 5

VARIABLES algs, elements, heap, last, loop, klass, made, outcome, frames

vars == <<algs, elements, heap, last, loop, klass, made, outcome, frames>>

\* The run of one while loop of an operator (loop), the protocol-style
\* element classes, their instances and the outcome of the last operation
\* on them (klass, made, outcome), and the frames of a comparison being
\* evaluated (frames); each is at rest while a client of another part runs.
loopVars == <<loop>>

protocolVars == <<klass, made, outcome>>

orderVars == <<frames>>

algebraVars == <<algs, elements, heap, last>>

(***************************************************************************)
(* Values a client can hand to an operator.                                *)
(***************************************************************************)
Elem(o) == [t |-> "elem", v |-> o]
IntV(n) == [t |-> "int", v |-> n]
ListV == [t |-> "list", v |-> 0]
PlainV == [t |-> "plain", v |-> 0]
NoneV == [t |-> "none", v |-> 0]
NotImplemented == [t |-> "NotImplemented", v |-> 0]

(***************************************************************************)
(* The algebra instances a client builds, after the test fixtures.         *)
(***************************************************************************)
Algebras == {"mg", "na", "nc", "sg1", "sg2", "mo", "gr", "cs1", "cs2", "cm", "asg", "ag", "rg", "fd"}

Scenarios == {{"mg"}, {"na", "nc"}, {"sg1", "sg2"}, {"mo", "gr"},
              {"cs1", "cs2"}, {"cm"}, {"asg"}, {"ag"}, {"rg"}, {"fd"}}

Kind(a) ==
    CASE a = "mg" -> "magma.Magma"
      [] a \in {"na", "nc"} -> "magma/__init__.Magma"
      [] a \in {"sg1", "sg2"} -> "Semigroup"
      [] a = "mo" -> "Monoid"
      [] a = "gr" -> "Group"
      [] a \in {"cs1", "cs2"} -> "CommutativeSemigroup"
      [] a = "cm" -> "CommutativeMonoid"
      [] a = "asg" -> "AdditiveSemigroup"
      [] a = "ag" -> "AbelianGroup"
      [] a = "rg" -> "Ring"
      [] a = "fd" -> "Field"

\* The functions and identity reps the client passes to the initializers.
\* The fixtures' products of ints are taken modulo Modulus, which keeps the
\* reps of an algebra in a finite set the operation is closed on.
non_assoc_mult(m, n) == (m * n - (IF m < n THEN m ELSE n)) % Modulus

non_comm_mult(m, n) == (m * n - m) % Modulus

process(m) == m % Modulus

UserMult(a, m, n) ==
    CASE a = "na" -> non_assoc_mult(m, n)
      [] a \in {"nc", "mg"} -> non_comm_mult(m, n)
      [] a \in {"sg1", "sg2"} -> m * n
      [] a \in {"mo", "rg", "fd"} -> (m * n) % Modulus
      [] a = "gr" -> (m + n) % Modulus

UserAdd(a, m, n) ==
    CASE a \in {"cs1", "cs2", "cm"} -> m + n
      [] a \in {"asg", "ag", "rg", "fd"} -> (m + n) % Modulus

\* The field's invert raises ValueError on a rep that has no inverse.
Invertible(m) == \E k \in 0..(Modulus - 1) : (m * k) % Modulus = 1

UserInvRaises(a, m) == a = "fd" /\ ~Invertible(m)

UserInv(a, m) ==
    IF a = "fd"
    THEN CHOOSE k \in 0..(Modulus - 1) : (m * k) % Modulus = 1
    ELSE (Modulus - (m % Modulus)) % Modulus

UserNeg(a, m) == (Modulus - (m % Modulus)) % Modulus

UserOne(a) == IF a = "gr" THEN 0 ELSE 1

UserZero(a) == IF a = "cm" THEN Modulus ELSE 0

UserNarrow(a, h) ==
    IF a \in {"mg", "sg1", "sg2", "cs1", "cs2", "cm", "rg", "fd"} THEN process(h) ELSE h

\* The reps the client wraps: any int for an algebra that narrows, the reps
\* its operations are closed on for one that does not.
RawReps(a) ==
    IF a \in {"mg", "sg1", "sg2", "cs1", "cs2", "cm", "rg", "fd"}
    THEN 0..MaxRaw
    ELSE 0..(Modulus - 1)

(***************************************************************************)
(* Attributes the initializers store on an algebra instance.  HasX(a) is   *)
(* "a._x is not None".                                                     *)
(***************************************************************************)
_narrow(a, h) ==
    IF Kind(a) \in {"magma.Magma", "Semigroup", "CommutativeSemigroup", "CommutativeMonoid"}
    THEN UserNarrow(a, h)
    ELSE h

\* The process function Ring.__call__ and Field.__call__ apply to the rep.
_process(a, h) == UserNarrow(a, h)

HasMult(a) ==
    Kind(a) \in {"magma.Magma", "magma/__init__.Magma", "Semigroup", "Monoid", "Group",
                 "Ring", "Field"}

_mult(a, left, right) ==
    IF Kind(a) \in {"Semigroup", "Monoid", "Group"}
    THEN _narrow(a, UserMult(a, left, right))
    ELSE UserMult(a, left, right)

HasAdd(a) ==
    Kind(a) \in {"CommutativeSemigroup", "CommutativeMonoid", "AdditiveSemigroup",
                 "AbelianGroup", "Ring", "Field"}

_add(a, left, right) ==
    IF Kind(a) \in {"CommutativeSemigroup", "CommutativeMonoid"}
    THEN _narrow(a, UserAdd(a, left, right))
    ELSE UserAdd(a, left, right)

HasOne(a) == Kind(a) \in {"Monoid", "Group", "Ring", "Field"}

_one(a) == UserOne(a)

HasZero(a) == Kind(a) \in {"CommutativeMonoid", "AbelianGroup", "Ring", "Field"}

_zero(a) == IF Kind(a) = "CommutativeMonoid" THEN _narrow(a, UserZero(a)) ELSE UserZero(a)

HasInv(a) == Kind(a) \in {"Group", "Field"}

_inv(a, h) == UserInv(a, h)

HasNeg(a) == Kind(a) \in {"AbelianGroup", "Ring", "Field"}

_neg(a, h) == UserNeg(a, h)

(***************************************************************************)
(* Element classes.  "Element" is the base class of the magma package,     *)
(* "baseset.BaseElement" the one of the flat modules and                   *)
(* "baseset/__init__.BaseElement" the one of the additive modules.         *)
(***************************************************************************)
ElementClass(a) ==
    CASE Kind(a) = "magma.Magma" -> "magma.MagmaElement"
      [] Kind(a) = "magma/__init__.Magma" -> "magma/__init__.MagmaElement"
      [] Kind(a) = "Semigroup" -> "SemigroupElement"
      [] Kind(a) = "Monoid" -> "MonoidElement"
      [] Kind(a) = "Group" -> "GroupElement"
      [] Kind(a) = "CommutativeSemigroup" -> "CommutativeSemigroupElement"
      [] Kind(a) = "CommutativeMonoid" -> "CommutativeMonoidElement"
      [] Kind(a) = "AdditiveSemigroup" -> "AdditiveSemigroupElement"
      [] Kind(a) = "AbelianGroup" -> "AbelianGroupElement"
      [] Kind(a) = "Ring" -> "RingElement"
      [] Kind(a) = "Field" -> "FieldElement"

Parent(c) ==
    CASE c = "magma.MagmaElement" -> "baseset.BaseElement"
      [] c = "magma/__init__.MagmaElement" -> "Element"
      [] c = "SemigroupElement" -> "baseset.BaseElement"
      [] c = "MonoidElement" -> "SemigroupElement"
      [] c = "GroupElement" -> "MonoidElement"
      [] c = "CommutativeSemigroupElement" -> "baseset.BaseElement"
      [] c = "CommutativeMonoidElement" -> "CommutativeSemigroupElement"
      [] c = "AdditiveSemigroupElement" -> "baseset/__init__.BaseElement"
      [] c = "AdditiveMonoidElement" -> "AdditiveSemigroupElement"
      [] c = "AbelianGroupElement" -> "AdditiveMonoidElement"
      [] c = "RingElement" -> "AbelianGroupElement"
      [] c = "FieldElement" -> "RingElement"
      [] OTHER -> "object"

RECURSIVE IsSubclass(_, _)
IsSubclass(c, d) ==
    IF c = d THEN TRUE
    ELSE IF c = "object" THEN FALSE
    ELSE IsSubclass(Parent(c), d)

\* The base class a plain base-algebra element has, seen from class c.
RECURSIVE BaseOf(_)
BaseOf(c) == IF Parent(c) = "object" THEN c ELSE BaseOf(Parent(c))

(***************************************************************************)
(* Outcome of a call: the registry and heap it leaves, the exception it    *)
(* raised ("none" when it returned) and the value it returned.             *)
(***************************************************************************)
Out(els, hp, exc, ret) == [elements |-> els, heap |-> hp, exc |-> exc, ret |-> ret]

Raise(els, hp, exc) == Out(els, hp, exc, NoneV)

\* BaseElement.__init__: the flat modules narrow the rep, the packages do not.
BaseElement_init(a, c, rep) ==
    [alg |-> a, cls |-> c,
     rep |-> IF BaseOf(c) = "baseset.BaseElement" THEN _narrow(a, rep) ELSE rep]

\* BaseElement.__call__: self().
BaseElement_call(hp, o) == hp[o].rep

\* A registry that stores the default under the key on every call.
setdefault_overwrite(els, hp, a, key, default) ==
    Out([els EXCEPT ![a] = [k \in (DOMAIN els[a]) \cup {key} |->
                               IF k = key THEN Len(hp) + 1 ELSE els[a][k]]],
        Append(hp, default), "none", Elem(Len(hp) + 1))

\* A registry that keeps only the newest entry when a key is added.
setdefault_evict(els, hp, a, key, default) ==
    IF key \in DOMAIN els[a]
    THEN Out(els, hp, "none", Elem(els[a][key]))
    ELSE Out([els EXCEPT ![a] = (key :> (Len(hp) + 1))],
             Append(hp, default), "none", Elem(Len(hp) + 1))

\* dict.setdefault(key, default) on the registry of algebra a.
setdefault_shared(els, hp, a, key, default) ==
    IF key \in DOMAIN els[a]
    THEN Out(els, hp, "none", Elem(els[a][key]))
    ELSE Out([b \in DOMAIN els |-> els[b] @@ (key :> (Len(hp) + 1))],
             Append(hp, default), "none", Elem(Len(hp) + 1))

setdefault(els, hp, a, key, default) ==
    IF key \in DOMAIN els[a]
    THEN Out(els, hp, "none", Elem(els[a][key]))
    ELSE Out([els EXCEPT ![a] = @ @@ (key :> (Len(hp) + 1))],
             Append(hp, default), "none", Elem(Len(hp) + 1))

Magma_call(els, hp, a, rep) ==
    LET r == _narrow(a, rep)
    IN  setdefault(els, hp, a, r, BaseElement_init(a, "magma.MagmaElement", r))

\* return self.elements[rep], after the setdefault that left d.
MagmaPkg_getitem(d, a, rep) == Out(d.elements, d.heap, "none", Elem(d.elements[a][rep]))

MagmaPkg_call(els, hp, a, rep) ==
    MagmaPkg_getitem(
        setdefault(els, hp, a, rep, BaseElement_init(a, "magma/__init__.MagmaElement", rep)),
        a, rep)

\* The element registered under the rep as given, not under the narrowed rep.
Semigroup_call_rawkey(els, hp, a, rep) ==
    setdefault(els, hp, a, rep, BaseElement_init(a, "SemigroupElement", rep))

Semigroup_call(els, hp, a, rep) ==
    LET r == _narrow(a, rep)
    IN  setdefault(els, hp, a, r, BaseElement_init(a, "SemigroupElement", r))

Monoid_call(els, hp, a, rep) ==
    setdefault(els, hp, a, rep, BaseElement_init(a, "MonoidElement", rep))

Group_call(els, hp, a, rep) ==
    setdefault(els, hp, a, rep, BaseElement_init(a, "GroupElement", rep))

CommutativeSemigroup_call(els, hp, a, rep) ==
    LET r == _narrow(a, rep)
    IN  setdefault(els, hp, a, r, BaseElement_init(a, "CommutativeSemigroupElement", r))

CommutativeMonoid_call(els, hp, a, rep) ==
    LET r == _narrow(a, rep)
    IN  setdefault(els, hp, a, r, BaseElement_init(a, "CommutativeMonoidElement", r))

BaseSet_call(els, hp, a, rep) ==
    setdefault(els, hp, a, rep, BaseElement_init(a, ElementClass(a), rep))

Ring_call(els, hp, a, rep) ==
    LET r == _process(a, rep)
    IN  setdefault(els, hp, a, r, BaseElement_init(a, "RingElement", r))

Field_call(els, hp, a, rep) ==
    LET r == _process(a, rep)
    IN  setdefault(els, hp, a, r, BaseElement_init(a, "FieldElement", r))

\* algebra(rep): the __call__ of the algebra's class.
Call(els, hp, a, rep) ==
    CASE Kind(a) = "magma.Magma" -> Magma_call(els, hp, a, rep)
      [] Kind(a) = "magma/__init__.Magma" -> MagmaPkg_call(els, hp, a, rep)
      [] Kind(a) = "Semigroup" -> Semigroup_call(els, hp, a, rep)
      [] Kind(a) = "Monoid" -> Monoid_call(els, hp, a, rep)
      [] Kind(a) = "Group" -> Group_call(els, hp, a, rep)
      [] Kind(a) = "CommutativeSemigroup" -> CommutativeSemigroup_call(els, hp, a, rep)
      [] Kind(a) = "CommutativeMonoid" -> CommutativeMonoid_call(els, hp, a, rep)
      [] Kind(a) \in {"AdditiveSemigroup", "AbelianGroup"} -> BaseSet_call(els, hp, a, rep)
      [] Kind(a) = "Ring" -> Ring_call(els, hp, a, rep)
      [] Kind(a) = "Field" -> Field_call(els, hp, a, rep)

\* isinstance(other, c) for a value other.
IsInstance(hp, other, c) == other.t = "elem" /\ IsSubclass(hp[other.v].cls, c)

(***************************************************************************)
(* Python's binary operator protocol.  Forward(els, hp, l, r) is the       *)
(* outcome of type(l).__op__(l, r), Reflected(els, hp, r, l) the one of    *)
(* type(r).__rop__(r, l); HasReflected says whether type(r) defines        *)
(* __rop__.  A foreign value is an int, a list, or an element of a plain   *)
(* base algebra (an instance of the base class of the other operand).      *)
(***************************************************************************)
Tried(out) == out.exc # "none" \/ out.ret # NotImplemented

\* l <op> r with l an element and r any value.
ElemLeft(els, hp, l, r, fwd, hasRefl, overrides, refl) ==
    IF r.t = "elem" /\ overrides /\ Tried(refl)
    THEN refl
    ELSE IF Tried(fwd) THEN fwd
    ELSE IF r.t = "elem" /\ hasRefl /\ ~overrides /\ hp[r.v].cls # hp[l.v].cls /\ Tried(refl)
    THEN refl
    ELSE Raise(fwd.elements, fwd.heap, "TypeError")

\* l <op> r with l a foreign value and r an element.  An int returns
\* NotImplemented and a list has no number slot, so the element's reflected
\* method runs; a plain base element is an instance of a proper superclass,
\* so the element's reflected method, when defined, runs first.
ForeignLeft(els, hp, l, r, base, hasRefl, refl) ==
    IF hasRefl /\ Tried(refl) THEN refl
    ELSE IF l.t = "plain" /\ Tried(base) THEN base
    ELSE Raise(els, hp, "TypeError")

\* BaseElement.__add__, __mul__, __pow__ of the base class of class c.
Base_op(els, hp, c) ==
    IF BaseOf(c) = "baseset.BaseElement"
    THEN Out(els, hp, "none", NotImplemented)
    ELSE Raise(els, hp, "NotImplementedError")

(***************************************************************************)
(* Addition.                                                               *)
(***************************************************************************)
CommutativeSemigroupElement_add(els, hp, self, other) ==
    IF IsInstance(hp, other, hp[self].cls)
    THEN LET algebra == hp[self].alg
         IN  IF algebra = hp[other.v].alg
             THEN IF HasAdd(algebra)
                  THEN Call(els, hp, algebra,
                            _add(algebra, BaseElement_call(hp, self), BaseElement_call(hp, other.v)))
                  ELSE Raise(els, hp, "ValueError")
             ELSE Raise(els, hp, "ValueError")
    ELSE Raise(els, hp, "TypeError")

CommutativeSemigroupElement_radd(els, hp, self, other) == Raise(els, hp, "TypeError")

AdditiveSemigroupElement_add(els, hp, self, other) ==
    IF IsInstance(hp, other, hp[self].cls)
    THEN LET algebra == hp[self].alg
         IN  IF algebra = hp[other.v].alg
             THEN IF HasAdd(algebra)
                  THEN Call(els, hp, algebra,
                            _add(algebra, BaseElement_call(hp, self), BaseElement_call(hp, other.v)))
                  ELSE Raise(els, hp, "ValueError")
             ELSE Raise(els, hp, "ValueError")
    ELSE Raise(els, hp, "TypeError")

AdditiveSemigroupElement_radd(els, hp, self, other) == Raise(els, hp, "TypeError")

\* type(self).__add__(self, other), by method resolution order.
Dunder_add(els, hp, self, other) ==
    LET c == hp[self].cls
    IN  IF IsSubclass(c, "CommutativeSemigroupElement")
        THEN CommutativeSemigroupElement_add(els, hp, self, other)
        ELSE IF IsSubclass(c, "AdditiveSemigroupElement")
        THEN AdditiveSemigroupElement_add(els, hp, self, other)
        ELSE Base_op(els, hp, c)

Has_radd(c) ==
    IsSubclass(c, "CommutativeSemigroupElement") \/ IsSubclass(c, "AdditiveSemigroupElement")

Dunder_radd(els, hp, self, other) ==
    IF IsSubclass(hp[self].cls, "CommutativeSemigroupElement")
    THEN CommutativeSemigroupElement_radd(els, hp, self, other)
    ELSE AdditiveSemigroupElement_radd(els, hp, self, other)

\* The class whose __radd__ class c uses ("object" when there is none).
Definer_radd(c) ==
    IF IsSubclass(c, "CommutativeSemigroupElement") THEN "CommutativeSemigroupElement"
    ELSE IF IsSubclass(c, "AdditiveSemigroupElement") THEN "AdditiveSemigroupElement"
    ELSE "object"

\* l + r.
PyAdd(els, hp, l, r) ==
    IF l.t = "elem"
    THEN LET overrides == /\ r.t = "elem"
                          /\ hp[r.v].cls # hp[l.v].cls
                          /\ IsSubclass(hp[r.v].cls, hp[l.v].cls)
                          /\ Definer_radd(hp[r.v].cls) # Definer_radd(hp[l.v].cls)
             hasRefl == r.t = "elem" /\ Has_radd(hp[r.v].cls)
         IN  ElemLeft(els, hp, l, r, Dunder_add(els, hp, l.v, r), hasRefl, overrides,
                      IF hasRefl THEN Dunder_radd(els, hp, r.v, l) ELSE Raise(els, hp, "TypeError"))
    ELSE LET hasRefl == Has_radd(hp[r.v].cls)
         IN  ForeignLeft(els, hp, l, r, Base_op(els, hp, hp[r.v].cls), hasRefl,
                         IF hasRefl THEN Dunder_radd(els, hp, r.v, l) ELSE Raise(els, hp, "TypeError"))

(***************************************************************************)
(* Multiplication.                                                         *)
(***************************************************************************)
MagmaElement_mul(els, hp, self, other) ==
    IF IsInstance(hp, other, hp[self].cls)
    THEN LET algebra == hp[self].alg
         IN  IF algebra = hp[other.v].alg
             THEN IF HasMult(algebra)
                  THEN Call(els, hp, algebra,
                            _mult(algebra, BaseElement_call(hp, self), BaseElement_call(hp, other.v)))
                  ELSE Raise(els, hp, "ValueError")
             ELSE Raise(els, hp, "ValueError")
    ELSE Raise(els, hp, "TypeError")

MagmaElement_rmul(els, hp, self, other) == Raise(els, hp, "TypeError")

\* The product taken in self's algebra without comparing the two algebras.
MagmaPkgElement_mul_unchecked(els, hp, self, other) ==
    IF IsInstance(hp, other, hp[self].cls)
    THEN Call(els, hp, hp[self].alg,
              _mult(hp[self].alg, BaseElement_call(hp, self), BaseElement_call(hp, other.v)))
    ELSE Raise(els, hp, "TypeError")

MagmaPkgElement_mul(els, hp, self, other) ==
    IF IsInstance(hp, other, hp[self].cls)
    THEN LET algebra == hp[self].alg
         IN  IF algebra = hp[other.v].alg
             THEN Call(els, hp, algebra,
                       _mult(algebra, BaseElement_call(hp, self), BaseElement_call(hp, other.v)))
             ELSE Raise(els, hp, "ValueError")
    ELSE Raise(els, hp, "TypeError")

\* A reflected multiplication that declines instead of raising.
MagmaPkgElement_rmul_declines(els, hp, self, other) == Out(els, hp, "none", NotImplemented)

MagmaPkgElement_rmul(els, hp, self, other) == Raise(els, hp, "TypeError")

\* A product wrapped in an element of its own instead of looked up.
SemigroupElement_mul_fresh(els, hp, self, other) ==
    IF IsInstance(hp, other, hp[self].cls)
    THEN IF hp[self].alg = hp[other.v].alg
         THEN Out(els,
                  Append(hp, BaseElement_init(hp[self].alg, hp[self].cls,
                                              _mult(hp[self].alg, BaseElement_call(hp, self),
                                                    BaseElement_call(hp, other.v)))),
                  "none", Elem(Len(hp) + 1))
         ELSE Raise(els, hp, "ValueError")
    ELSE IF other.t = "int" THEN Raise(els, hp, "TypeError")
    ELSE Out(els, hp, "none", NotImplemented)

SemigroupElement_mul(els, hp, self, other) ==
    IF IsInstance(hp, other, hp[self].cls)
    THEN LET algebra == hp[self].alg
         IN  IF algebra = hp[other.v].alg
             THEN IF HasMult(algebra)
                  THEN Call(els, hp, algebra,
                            _mult(algebra, BaseElement_call(hp, self), BaseElement_call(hp, other.v)))
                  ELSE Raise(els, hp, "ValueError")
             ELSE Raise(els, hp, "ValueError")
    ELSE IF other.t = "int" THEN Raise(els, hp, "TypeError")
    ELSE Out(els, hp, "none", NotImplemented)

SemigroupElement_rmul(els, hp, self, other) ==
    IF other.t = "int" THEN Raise(els, hp, "TypeError")
    ELSE Out(els, hp, "none", NotImplemented)

\* while n > 1: r, n = add(r1, r), n - 1
RECURSIVE CommutativeSemigroupElement_mul_loop(_, _, _, _)
CommutativeSemigroupElement_mul_loop(a, r1, r, n) ==
    IF n > 1
    THEN CommutativeSemigroupElement_mul_loop(a, r1, _add(a, r1, r), n - 1)
    ELSE r

CommutativeSemigroupElement_mul_declines(els, hp, self, n) ==
    IF n.t = "int"
    THEN IF n.v > 0
         THEN LET algebra == hp[self].alg
                  r1 == BaseElement_call(hp, self)
              IN  Call(els, hp, algebra,
                       CommutativeSemigroupElement_mul_loop(algebra, r1, r1, n.v))
         ELSE Raise(els, hp, "ValueError")
    ELSE Out(els, hp, "none", NotImplemented)

CommutativeSemigroupElement_mul(els, hp, self, n) ==
    IF n.t = "int"
    THEN IF n.v > 0
         THEN LET algebra == hp[self].alg
                  r1 == BaseElement_call(hp, self)
              IN  IF ~HasAdd(algebra) THEN Raise(els, hp, "ValueError")
                  ELSE Call(els, hp, algebra,
                            CommutativeSemigroupElement_mul_loop(algebra, r1, r1, n.v))
         ELSE Raise(els, hp, "ValueError")
    ELSE Raise(els, hp, "ValueError")

RECURSIVE CommutativeMonoidElement_mul_loop_once_more(_, _, _, _)
CommutativeMonoidElement_mul_loop_once_more(a, r1, r, n) ==
    IF n >= 0
    THEN CommutativeMonoidElement_mul_loop_once_more(a, r1, _add(a, r, r1), n - 1)
    ELSE r

\* while n > 0: r, n = add(r, r1), n - 1
RECURSIVE CommutativeMonoidElement_mul_loop(_, _, _, _)
CommutativeMonoidElement_mul_loop(a, r1, r, n) ==
    IF n > 0
    THEN CommutativeMonoidElement_mul_loop(a, r1, _add(a, r, r1), n - 1)
    ELSE r

CommutativeMonoidElement_mul(els, hp, self, n) ==
    LET algebra == hp[self].alg
    IN  IF n.t = "int"
        THEN IF n.v >= 0
             THEN IF ~HasAdd(algebra) THEN Raise(els, hp, "ValueError")
                  ELSE IF ~HasZero(algebra) THEN Raise(els, hp, "ValueError")
                  ELSE Call(els, hp, algebra,
                            CommutativeMonoidElement_mul_loop(
                                algebra, BaseElement_call(hp, self), _zero(algebra), n.v))
             ELSE Raise(els, hp, "ValueError")
        ELSE IF IsInstance(hp, n, hp[self].cls) /\ ~HasMult(algebra)
        THEN Raise(els, hp, "ValueError")
        ELSE Out(els, hp, "none", NotImplemented)

\* AbelianGroupElement.negate: a new element object, not a registry lookup.
AbelianGroupElement_negate(els, hp, self) ==
    LET algebra == hp[self].alg
    IN  IF ~HasNeg(algebra) THEN Raise(els, hp, "ValueError")
        ELSE Out(els,
                 Append(hp, BaseElement_init(algebra, hp[self].cls,
                                             _neg(algebra, BaseElement_call(hp, self)))),
                 "none", Elem(Len(hp) + 1))

\* An object no reference is left to (heap index k) is reclaimed.
Reclaim(out, k) ==
    LET drop(o) == IF o > k THEN o - 1 ELSE o
    IN  [elements |-> [a \in DOMAIN out.elements |->
                          [key \in DOMAIN out.elements[a] |-> drop(out.elements[a][key])]],
         heap |-> [i \in 1..(Len(out.heap) - 1) |->
                      IF i < k THEN out.heap[i] ELSE out.heap[i + 1]],
         exc |-> out.exc,
         ret |-> IF out.ret.t = "elem" THEN Elem(drop(out.ret.v)) ELSE out.ret]

\* while n > 0: r, n = add(r, r1), n - 1
RECURSIVE AbelianGroupElement_mul_loop(_, _, _, _)
AbelianGroupElement_mul_loop(a, r1, r, n) ==
    IF n > 0
    THEN AbelianGroupElement_mul_loop(a, r1, _add(a, r, r1), n - 1)
    ELSE r

RECURSIVE AbelianGroupElement_mul_neg_short(_, _, _)
AbelianGroupElement_mul_neg_short(g, g_neg, n) ==
    IF g.exc # "none" \/ n >= -2 THEN g
    ELSE AbelianGroupElement_mul_neg_short(
             PyAdd(g.elements, g.heap, g.ret, Elem(g_neg)), g_neg, n + 1)

\* while n < -1: g, n = g + g_neg, n + 1, entered with the outcome that
\* bound g (an exception leaves the loop).
RECURSIVE AbelianGroupElement_mul_neg(_, _, _)
AbelianGroupElement_mul_neg(g, g_neg, n) ==
    IF g.exc # "none" \/ n >= -1 THEN g
    ELSE AbelianGroupElement_mul_neg(
             PyAdd(g.elements, g.heap, g.ret, Elem(g_neg)), g_neg, n + 1)

\* g_neg, unless it is the value returned, is dropped on return.
ReclaimTemp(res, temp) == IF res.ret = Elem(temp) THEN res ELSE Reclaim(res, temp)

AbelianGroupElement_mul_from(neg, n) ==
    IF neg.exc # "none" THEN neg
    ELSE ReclaimTemp(AbelianGroupElement_mul_neg(neg, neg.ret.v, n), neg.ret.v)

AbelianGroupElement_mul(els, hp, self, n) ==
    IF n.t = "int"
    THEN IF n.v >= 0
         THEN LET algebra == hp[self].alg
              IN  IF ~HasAdd(algebra) THEN Raise(els, hp, "ValueError")
                  ELSE IF ~HasZero(algebra) THEN Raise(els, hp, "ValueError")
                  ELSE Call(els, hp, algebra,
                            AbelianGroupElement_mul_loop(
                                algebra, BaseElement_call(hp, self), _zero(algebra), n.v))
         ELSE AbelianGroupElement_mul_from(AbelianGroupElement_negate(els, hp, self), n.v)
    ELSE Raise(els, hp, "ValueError")

\* while n > 1: r, n = add(r1, r), n - 1
RECURSIVE AdditiveSemigroupElement_mul_loop(_, _, _, _)
AdditiveSemigroupElement_mul_loop(a, r1, r, n) ==
    IF n > 1
    THEN AdditiveSemigroupElement_mul_loop(a, r1, _add(a, r1, r), n - 1)
    ELSE r

AdditiveSemigroupElement_mul(els, hp, self, n) ==
    IF n.t = "int"
    THEN IF n.v > 0
         THEN LET algebra == hp[self].alg
                  r1 == BaseElement_call(hp, self)
              IN  IF ~HasAdd(algebra) THEN Raise(els, hp, "ValueError")
                  ELSE Call(els, hp, algebra,
                            AdditiveSemigroupElement_mul_loop(algebra, r1, r1, n.v))
         ELSE Raise(els, hp, "ValueError")
    ELSE Raise(els, hp, "ValueError")

RingElement_mul_adds(els, hp, self, other) ==
    IF other.t = "int"
    THEN AbelianGroupElement_mul(els, hp, self, other)
    ELSE IF IsInstance(hp, other, hp[self].cls)
    THEN LET algebra == hp[self].alg
         IN  IF algebra = hp[other.v].alg
             THEN Call(els, hp, algebra,
                       _add(algebra, BaseElement_call(hp, self), BaseElement_call(hp, other.v)))
             ELSE Raise(els, hp, "ValueError")
    ELSE Out(els, hp, "none", NotImplemented)

\* An int goes to AbelianGroupElement.__mul__; an element of the same
\* algebra is multiplied with the algebra's mult.
RingElement_mul(els, hp, self, other) ==
    IF other.t = "int"
    THEN AbelianGroupElement_mul(els, hp, self, other)
    ELSE IF IsInstance(hp, other, hp[self].cls)
    THEN LET algebra == hp[self].alg
         IN  IF algebra = hp[other.v].alg
             THEN IF HasMult(algebra)
                  THEN Call(els, hp, algebra,
                            _mult(algebra, BaseElement_call(hp, self), BaseElement_call(hp, other.v)))
                  ELSE Raise(els, hp, "ValueError")
             ELSE Raise(els, hp, "ValueError")
    ELSE Out(els, hp, "none", NotImplemented)

RingElement_rmul(els, hp, self, other) ==
    IF other.t = "int"
    THEN RingElement_mul(els, hp, self, other)
    ELSE Out(els, hp, "none", NotImplemented)

\* type(self).__mul__(self, other), by method resolution order.
Dunder_mul(els, hp, self, other) ==
    LET c == hp[self].cls
    IN  CASE c = "magma.MagmaElement" -> MagmaElement_mul(els, hp, self, other)
          [] c = "magma/__init__.MagmaElement" -> MagmaPkgElement_mul(els, hp, self, other)
          [] IsSubclass(c, "SemigroupElement") -> SemigroupElement_mul(els, hp, self, other)
          [] c = "CommutativeSemigroupElement" ->
                CommutativeSemigroupElement_mul(els, hp, self, other)
          [] c = "CommutativeMonoidElement" -> CommutativeMonoidElement_mul(els, hp, self, other)
          [] c = "AdditiveSemigroupElement" -> AdditiveSemigroupElement_mul(els, hp, self, other)
          [] c = "AbelianGroupElement" -> AbelianGroupElement_mul(els, hp, self, other)
          [] IsSubclass(c, "RingElement") -> RingElement_mul(els, hp, self, other)

\* AdditiveSemigroupElement and AdditiveMonoidElement define __mul__ but no
\* __rmul__, and their base class has none.
Has_rmul(c) == c \notin {"AdditiveSemigroupElement", "AdditiveMonoidElement"}

\* CommutativeSemigroupElement.__rmul__ and AbelianGroupElement.__rmul__:
\* return self.__mul__(n).
Dunder_rmul(els, hp, self, other) ==
    LET c == hp[self].cls
    IN  CASE c = "magma.MagmaElement" -> MagmaElement_rmul(els, hp, self, other)
          [] c = "magma/__init__.MagmaElement" -> MagmaPkgElement_rmul(els, hp, self, other)
          [] IsSubclass(c, "SemigroupElement") -> SemigroupElement_rmul(els, hp, self, other)
          [] IsSubclass(c, "RingElement") -> RingElement_rmul(els, hp, self, other)
          [] OTHER -> Dunder_mul(els, hp, self, other)

\* The class whose __rmul__ class c uses ("object" when there is none).
Definer_rmul(c) ==
    CASE IsSubclass(c, "SemigroupElement") -> "SemigroupElement"
      [] IsSubclass(c, "CommutativeSemigroupElement") -> "CommutativeSemigroupElement"
      [] IsSubclass(c, "RingElement") -> "RingElement"
      [] ~Has_rmul(c) -> "object"
      [] OTHER -> c

\* l * r.
PyMul(els, hp, l, r) ==
    IF l.t = "elem"
    THEN LET overrides == /\ r.t = "elem"
                          /\ hp[r.v].cls # hp[l.v].cls
                          /\ IsSubclass(hp[r.v].cls, hp[l.v].cls)
                          /\ Definer_rmul(hp[r.v].cls) # Definer_rmul(hp[l.v].cls)
             hasRefl == r.t = "elem" /\ Has_rmul(hp[r.v].cls)
         IN  ElemLeft(els, hp, l, r, Dunder_mul(els, hp, l.v, r), hasRefl, overrides,
                      IF hasRefl THEN Dunder_rmul(els, hp, r.v, l) ELSE Raise(els, hp, "TypeError"))
    ELSE LET hasRefl == Has_rmul(hp[r.v].cls)
         IN  ForeignLeft(els, hp, l, r, Base_op(els, hp, hp[r.v].cls), hasRefl,
                         IF hasRefl THEN Dunder_rmul(els, hp, r.v, l) ELSE Raise(els, hp, "TypeError"))

(***************************************************************************)
(* Powers and inverses.                                                    *)
(***************************************************************************)
RECURSIVE SemigroupElement_pow_loop_once_more(_, _, _, _)
SemigroupElement_pow_loop_once_more(a, r1, r, n) ==
    IF n > 0
    THEN SemigroupElement_pow_loop_once_more(a, r1, _mult(a, r1, r), n - 1)
    ELSE r

\* while n > 1: r, n = mult(r1, r), n - 1
RECURSIVE SemigroupElement_pow_loop(_, _, _, _)
SemigroupElement_pow_loop(a, r1, r, n) ==
    IF n > 1
    THEN SemigroupElement_pow_loop(a, r1, _mult(a, r1, r), n - 1)
    ELSE r

\* Squares through the algebra first, as a power computed on elements would.
SemigroupElement_pow_on_elements(els, hp, self, n) ==
    IF n > 0
    THEN LET algebra == hp[self].alg
             r1 == BaseElement_call(hp, self)
         IN  IF ~HasMult(algebra) THEN Raise(els, hp, "ValueError")
             ELSE IF n > 2
             THEN Call(Call(els, hp, algebra, _mult(algebra, r1, r1)).elements,
                       Call(els, hp, algebra, _mult(algebra, r1, r1)).heap, algebra,
                       SemigroupElement_pow_loop(algebra, r1, r1, n))
             ELSE Call(els, hp, algebra, SemigroupElement_pow_loop(algebra, r1, r1, n))
    ELSE Raise(els, hp, "ValueError")

SemigroupElement_pow(els, hp, self, n) ==
    IF n > 0
    THEN LET algebra == hp[self].alg
             r1 == BaseElement_call(hp, self)
         IN  IF ~HasMult(algebra) THEN Raise(els, hp, "ValueError")
             ELSE Call(els, hp, algebra, SemigroupElement_pow_loop(algebra, r1, r1, n))
    ELSE Raise(els, hp, "ValueError")

\* The loop with the factors the other way round: r, n = mult(r, r1), n - 1
RECURSIVE MagmaElement_pow_loop_left(_, _, _, _)
MagmaElement_pow_loop_left(a, r1, r, n) ==
    IF n > 1
    THEN MagmaElement_pow_loop_left(a, r1, _mult(a, r, r1), n - 1)
    ELSE r

\* while n > 1: r, n = mult(r1, r), n - 1
RECURSIVE MagmaElement_pow_loop(_, _, _, _)
MagmaElement_pow_loop(a, r1, r, n) ==
    IF n > 1
    THEN MagmaElement_pow_loop(a, r1, _mult(a, r1, r), n - 1)
    ELSE r

MagmaElement_pow(els, hp, self, n) ==
    IF n > 0
    THEN LET algebra == hp[self].alg
             r1 == BaseElement_call(hp, self)
         IN  IF ~HasMult(algebra) THEN Raise(els, hp, "ValueError")
             ELSE Call(els, hp, algebra, MagmaElement_pow_loop(algebra, r1, r1, n))
    ELSE Raise(els, hp, "ValueError")

\* The loop stopped one round early: while n > 1
RECURSIVE MonoidElement_pow_loop_short(_, _, _, _)
MonoidElement_pow_loop_short(a, r1, r, n) ==
    IF n > 1
    THEN MonoidElement_pow_loop_short(a, r1, _mult(a, r, r1), n - 1)
    ELSE r

\* while n > 0: r, n = mult(r, r1), n - 1
RECURSIVE MonoidElement_pow_loop(_, _, _, _)
MonoidElement_pow_loop(a, r1, r, n) ==
    IF n > 0
    THEN MonoidElement_pow_loop(a, r1, _mult(a, r, r1), n - 1)
    ELSE r

MonoidElement_pow_lenient(els, hp, self, n) ==
    LET algebra == hp[self].alg
    IN  Call(els, hp, algebra,
             MonoidElement_pow_loop(algebra, BaseElement_call(hp, self), _one(algebra), n))

MonoidElement_pow(els, hp, self, n) ==
    IF n >= 0
    THEN LET algebra == hp[self].alg
         IN  IF ~HasMult(algebra) THEN Raise(els, hp, "ValueError")
             ELSE IF ~HasOne(algebra) THEN Raise(els, hp, "ValueError")
             ELSE Call(els, hp, algebra,
                       MonoidElement_pow_loop(algebra, BaseElement_call(hp, self), _one(algebra), n))
    ELSE Raise(els, hp, "ValueError")

\* GroupElement.invert: a new element object, not a registry lookup.
GroupElement_invert(els, hp, self) ==
    LET algebra == hp[self].alg
    IN  IF ~HasInv(algebra) THEN Raise(els, hp, "ValueError")
        ELSE Out(els,
                 Append(hp, BaseElement_init(algebra, hp[self].cls,
                                             _inv(algebra, BaseElement_call(hp, self)))),
                 "none", Elem(Len(hp) + 1))

RECURSIVE GroupElement_pow_neg_short(_, _, _)
GroupElement_pow_neg_short(g, g_inv, n) ==
    IF g.exc # "none" \/ n >= -2 THEN g
    ELSE GroupElement_pow_neg_short(PyMul(g.elements, g.heap, g.ret, Elem(g_inv)), g_inv, n + 1)

\* while n < -1: g, n = g * g_inv, n + 1, entered with the outcome that
\* bound g (an exception leaves the loop).
RECURSIVE GroupElement_pow_neg(_, _, _)
GroupElement_pow_neg(g, g_inv, n) ==
    IF g.exc # "none" \/ n >= -1 THEN g
    ELSE GroupElement_pow_neg(PyMul(g.elements, g.heap, g.ret, Elem(g_inv)), g_inv, n + 1)

GroupElement_pow_from(inv, n) ==
    IF inv.exc # "none" THEN inv
    ELSE ReclaimTemp(GroupElement_pow_neg(inv, inv.ret.v, n), inv.ret.v)

\* while n > 0: r, n = mult(r, r1), n - 1
RECURSIVE GroupElement_pow_loop(_, _, _, _)
GroupElement_pow_loop(a, r1, r, n) ==
    IF n > 0
    THEN GroupElement_pow_loop(a, r1, _mult(a, r, r1), n - 1)
    ELSE r

GroupElement_pow(els, hp, self, n) ==
    IF n >= 0
    THEN LET algebra == hp[self].alg
         IN  IF ~HasMult(algebra) THEN Raise(els, hp, "ValueError")
             ELSE IF ~HasOne(algebra) THEN Raise(els, hp, "ValueError")
             ELSE Call(els, hp, algebra,
                       GroupElement_pow_loop(algebra, BaseElement_call(hp, self), _one(algebra), n))
    ELSE GroupElement_pow_from(GroupElement_invert(els, hp, self), n)

\* while n > 0: r, n = mult(r, r1), n - 1
RECURSIVE RingElement_pow_loop(_, _, _, _)
RingElement_pow_loop(a, r1, r, n) ==
    IF n > 0
    THEN RingElement_pow_loop(a, r1, _mult(a, r, r1), n - 1)
    ELSE r

RingElement_pow(els, hp, self, n) ==
    IF n >= 0
    THEN LET algebra == hp[self].alg
         IN  IF ~HasMult(algebra) THEN Raise(els, hp, "ValueError")
             ELSE IF ~HasOne(algebra) THEN Raise(els, hp, "ValueError")
             ELSE Call(els, hp, algebra,
                       RingElement_pow_loop(algebra, BaseElement_call(hp, self), _one(algebra), n))
    ELSE Raise(els, hp, "ValueError")

\* g = (g_inv := type(self)(invert(self()), algebra)): a new element object,
\* not a registry lookup; the user's invert raises on a rep without inverse.
FieldElement_pow_inverse(els, hp, self) ==
    LET algebra == hp[self].alg
    IN  IF UserInvRaises(algebra, BaseElement_call(hp, self))
        THEN Raise(els, hp, "ValueError")
        ELSE Out(els,
                 Append(hp, BaseElement_init(algebra, hp[self].cls,
                                             _inv(algebra, BaseElement_call(hp, self)))),
                 "none", Elem(Len(hp) + 1))

\* while n < -1: g, n = g * g_inv, n + 1, entered with the outcome that
\* bound g (an exception leaves the loop).
RECURSIVE FieldElement_pow_neg(_, _, _)
FieldElement_pow_neg(g, g_inv, n) ==
    IF g.exc # "none" \/ n >= -1 THEN g
    ELSE FieldElement_pow_neg(PyMul(g.elements, g.heap, g.ret, Elem(g_inv)), g_inv, n + 1)

FieldElement_pow_from(inv, n) ==
    IF inv.exc # "none" THEN inv
    ELSE ReclaimTemp(FieldElement_pow_neg(inv, inv.ret.v, n), inv.ret.v)

\* while n > 0: r, n = mult(r, r1), n - 1
RECURSIVE FieldElement_pow_loop(_, _, _, _)
FieldElement_pow_loop(a, r1, r, n) ==
    IF n > 0
    THEN FieldElement_pow_loop(a, r1, _mult(a, r, r1), n - 1)
    ELSE r

FieldElement_pow(els, hp, self, n) ==
    LET algebra == hp[self].alg
    IN  IF ~HasMult(algebra) THEN Raise(els, hp, "ValueError")
        ELSE IF ~HasOne(algebra) THEN Raise(els, hp, "ValueError")
        ELSE IF ~HasInv(algebra) THEN Raise(els, hp, "ValueError")
        ELSE IF n >= 0
        THEN Call(els, hp, algebra,
                  FieldElement_pow_loop(algebra, BaseElement_call(hp, self), _one(algebra), n))
        ELSE FieldElement_pow_from(FieldElement_pow_inverse(els, hp, self), n)

\* x ** n: type(x).__pow__(x, n); an int exponent has no reflected method
\* for an element, so NotImplemented ends in TypeError.
Dunder_pow(els, hp, x, n) ==
    LET c == hp[x].cls
    IN  CASE c = "magma.MagmaElement" -> MagmaElement_pow(els, hp, x, n)
          [] c = "SemigroupElement" -> SemigroupElement_pow(els, hp, x, n)
          [] c = "MonoidElement" -> MonoidElement_pow(els, hp, x, n)
          [] c = "GroupElement" -> GroupElement_pow(els, hp, x, n)
          [] c = "RingElement" -> RingElement_pow(els, hp, x, n)
          [] c = "FieldElement" -> FieldElement_pow(els, hp, x, n)
          [] OTHER -> Base_op(els, hp, c)

OrTypeError(res) == IF Tried(res) THEN res ELSE Raise(res.elements, res.heap, "TypeError")

PyPow(els, hp, x, n) == OrTypeError(Dunder_pow(els, hp, x, n))

\* BaseElement.__neg__ of the base class of class c; no element class
\* overrides it.
BaseElement_neg(els, hp, c) ==
    IF BaseOf(c) = "baseset.BaseElement"
    THEN Raise(els, hp, "TypeError")
    ELSE Raise(els, hp, "NotImplementedError")

\* -x: type(x).__neg__(x).
PyNeg(els, hp, x) == BaseElement_neg(els, hp, hp[x].cls)

\* BaseElement.__eq__: self.__eq__(other).
BaseElement_eq(hp, self, other) ==
    IF ~IsInstance(hp, other, hp[self].cls) THEN FALSE
    ELSE IF self = other.v THEN TRUE
    ELSE BaseElement_call(hp, self) = BaseElement_call(hp, other.v)

\* l == r for two elements: when type(r) is a proper subclass of type(l),
\* r.__eq__(l) runs first, and __eq__ never returns NotImplemented.
PyEq(hp, l, r) ==
    IF hp[r].cls # hp[l].cls /\ IsSubclass(hp[r].cls, hp[l].cls)
    THEN BaseElement_eq(hp, r, Elem(l))
    ELSE BaseElement_eq(hp, l, Elem(r))

(***************************************************************************)
(* The client: it builds the algebras of one scenario, then calls them and *)
(* applies operators to the elements it was handed and to foreign values.  *)
(* `last` records the operation the client has just run, its operands and   *)
(* its outcome, until the client has taken the outcome (Observe).          *)
(***************************************************************************)
Idle == [op |-> "none", alg |-> "", l |-> NoneV, r |-> NoneV, exc |-> "none", ret |-> NoneV]

Held == {Elem(o) : o \in 1..Len(heap)}

Foreign == {IntV(n) : n \in (-MaxExp)..MaxExp} \cup {ListV, PlainV}

Commit(op, a, l, r, out) ==
    /\ Len(out.heap) <= MaxObj
    /\ elements' = out.elements
    /\ heap' = out.heap
    /\ last' = [op |-> op, alg |-> a, l |-> l, r |-> r, exc |-> out.exc, ret |-> out.ret]
    /\ UNCHANGED <<algs, loopVars, protocolVars, orderVars>>

\* No loop is running, no protocol-style class is in use, no comparison is
\* being evaluated.
NoLoop == [pc |-> "idle", alg |-> "", op |-> "", r1 |-> 0, r |-> 0, n |-> 0, n0 |-> 0, count |-> 0]

LoopAtRest == loop = NoLoop

ProtocolAtRest == klass = <<>> /\ made = {} /\ outcome = <<>>

OrderAtRest == frames = <<>>

Init ==
    /\ algs \in Scenarios
    /\ elements = [a \in algs |-> <<>>]
    /\ heap = <<>>
    /\ last = Idle
    /\ LoopAtRest /\ ProtocolAtRest /\ OrderAtRest

\* x = A(rep)
DoCall ==
    /\ last = Idle
    /\ \E a \in algs : \E rep \in RawReps(a) :
            Commit("call", a, IntV(rep), NoneV, Call(elements, heap, a, rep))

\* l * r
DoMul ==
    /\ last = Idle
    /\ \E l \in Held \cup Foreign, r \in Held \cup Foreign :
            /\ l \in Held \/ r \in Held
            /\ Commit("mul", "", l, r, PyMul(elements, heap, l, r))

\* l + r
DoAdd ==
    /\ last = Idle
    /\ \E l \in Held \cup Foreign, r \in Held \cup Foreign :
            /\ l \in Held \/ r \in Held
            /\ Commit("add", "", l, r, PyAdd(elements, heap, l, r))

\* x ** n
DoPow ==
    /\ last = Idle
    /\ \E x \in Held, n \in (-MaxExp)..MaxExp :
            Commit("pow", "", x, IntV(n), PyPow(elements, heap, x.v, n))

\* x.invert()
DoInvert ==
    /\ last = Idle
    /\ \E x \in Held :
            /\ IsSubclass(heap[x.v].cls, "GroupElement")
            /\ Commit("invert", "", x, NoneV, GroupElement_invert(elements, heap, x.v))

\* x.negate()
DoNegate ==
    /\ last = Idle
    /\ \E x \in Held :
            /\ IsSubclass(heap[x.v].cls, "AbelianGroupElement")
            /\ Commit("negate", "", x, NoneV, AbelianGroupElement_negate(elements, heap, x.v))

\* -x
DoNeg ==
    /\ last = Idle
    /\ \E x \in Held : Commit("neg", "", x, NoneV, PyNeg(elements, heap, x.v))

\* The client takes the outcome: it keeps the element or handles the exception.
Observe ==
    /\ last # Idle
    /\ last' = Idle
    /\ UNCHANGED <<algs, elements, heap, loopVars, protocolVars, orderVars>>

Next == DoCall \/ DoMul \/ DoAdd \/ DoPow \/ DoInvert \/ DoNegate \/ DoNeg \/ Observe

Spec == Init /\ [][Next]_vars

TypeOK ==
    /\ algs \in Scenarios
    /\ DOMAIN elements = algs
    /\ Len(heap) <= MaxObj
    /\ \A a \in algs : \A k \in DOMAIN elements[a] : elements[a][k] \in 1..Len(heap)

(***************************************************************************)
(* Properties of the registry and of the operators.                        *)
(***************************************************************************)
\* The outcome of A(r2) run right after the call that left c1.
ThenCall(c1, a, r2) == Call(c1.elements, c1.heap, a, r2)

\* A(rep) finds rep registered: it returns object o and changes nothing.
IsRegistryEntry(a, rep, o) == Call(elements, heap, a, rep) = Out(elements, heap, "none", Elem(o))

\* A(r2) right after the call A(r1) that left c1 returns the object c1 returned.
SameObjectTwice(c1, a, r2) == ThenCall(c1, a, r2).ret = c1.ret

\* C1: after any sequence of calls and element operations (last = Idle: the
\* client has taken every outcome), the registry of an algebra holds at most
\* one element per representation, and A(r1) is A(r2) exactly when the
\* narrowed reps r1 and r2 are equal.
C1_OneElementPerRep ==
    last = Idle =>
        \A a \in algs :
            /\ \A k1, k2 \in DOMAIN elements[a] :
                   BaseElement_call(heap, elements[a][k1]) = BaseElement_call(heap, elements[a][k2])
                       => elements[a][k1] = elements[a][k2]
            /\ \A r1, r2 \in RawReps(a) :
                   SameObjectTwice(Call(elements, heap, a, r1), a, r2)
                       <=> (UserNarrow(a, r1) = UserNarrow(a, r2))

\* A(r) has just returned an element registered earlier under the narrowed
\* rep, r itself being another rep.
C1_Witness ==
    /\ last.op = "call"
    /\ last.exc = "none"
    /\ last.ret.v < Len(heap)
    /\ last.l.v # BaseElement_call(heap, last.ret.v)

\* C2: for x and y of one algebra that has the operation, x * y is the
\* registry's element A(mult(x(), y())) and x + y is A(add(x(), y())): the
\* object A(rep) returns for that rep, the registry left as it is by the
\* lookup, never a wrapper of its own.
C2_ProductIsRegistryElement ==
    (/\ last.op \in {"mul", "add"}
     /\ last.l.t = "elem"
     /\ last.r.t = "elem")
        => LET x == last.l.v
               y == last.r.v
               A == heap[x].alg
           IN  /\ (last.op = "mul" /\ heap[y].alg = A /\ HasMult(A))
                     => /\ last.exc = "none"
                        /\ last.ret.t = "elem"
                        /\ IsRegistryEntry(A, _mult(A, BaseElement_call(heap, x),
                                                     BaseElement_call(heap, y)), last.ret.v)
               /\ (last.op = "add" /\ heap[y].alg = A /\ HasAdd(A))
                     => /\ last.exc = "none"
                        /\ last.ret.t = "elem"
                        /\ IsRegistryEntry(A, _add(A, BaseElement_call(heap, x),
                                                    BaseElement_call(heap, y)), last.ret.v)

\* x * y of two elements of one algebra has just returned a third element.
C2_Witness ==
    /\ last.op = "mul"
    /\ last.exc = "none"
    /\ last.l.t = "elem"
    /\ last.r.t = "elem"
    /\ heap[last.l.v].alg = heap[last.r.v].alg
    /\ last.ret # last.l
    /\ last.ret # last.r

\* C3 (as stated): two elements of one algebra, however obtained, are equal
\* exactly when they are the identical object.
C3_EqualIffIdentical ==
    \A x, y \in 1..Len(heap) :
        heap[x].alg = heap[y].alg => (BaseElement_eq(heap, x, Elem(y)) <=> x = y)

\* C4 (as stated): every element an operation hands to the client is the
\* registry's element for its own rep: e is A(e()).
C4_ReturnedIsRegistered ==
    (last.exc = "none" /\ last.ret.t = "elem")
        => IsRegistryEntry(heap[last.ret.v].alg, BaseElement_call(heap, last.ret.v), last.ret.v)

\* A(r) on registry els and heap hp finds r registered and returns object e.
Finds(els, hp, a, r, e) == Call(els, hp, a, r) = Out(els, hp, "none", e)

\* C5: a registry entry is never changed or deleted: across every step that
\* changes a registry or the heap, each key keeps its element object and the
\* object its rep, and a rep that A(r) already finds registered is found
\* again afterwards, as the same object.
C5_RegistryOnlyGrows ==
    [][(elements' # elements \/ heap' # heap)
          => \A a \in algs :
                /\ \A k \in DOMAIN elements[a] :
                       /\ k \in DOMAIN elements'[a]
                       /\ elements'[a][k] = elements[a][k]
                       /\ heap'[elements[a][k]] = heap[elements[a][k]]
                /\ \A r \in RawReps(a) :
                       Call(elements, heap, a, r).elements = elements
                           => Finds(elements', heap', a, r, Call(elements, heap, a, r).ret)]_vars

\* A(r) has just returned an element registered before another one was.
C5_Witness ==
    /\ last.op = "call"
    /\ last.exc = "none"
    /\ Cardinality(DOMAIN elements[last.alg]) >= 2
    /\ \E k \in DOMAIN elements[last.alg] : elements[last.alg][k] > last.ret.v

CrossAlgebra(op, l, r) ==
    /\ l.t = "elem"
    /\ r.t = "elem"
    /\ heap[l.v].cls = heap[r.v].cls
    /\ heap[l.v].alg # heap[r.v].alg
    /\ \/ op = "mul" /\ HasMult(heap[l.v].alg) /\ HasMult(heap[r.v].alg)
       \/ op = "add" /\ HasAdd(heap[l.v].alg) /\ HasAdd(heap[r.v].alg)

\* C7: x * y (or x + y) of two elements of the same class that belong to
\* different algebra instances raises ValueError, returns nothing and
\* changes no registry.
C7_CrossAlgebraValueError ==
    [][CrossAlgebra(last'.op, last'.l, last'.r)
          => /\ last'.exc = "ValueError"
             /\ last'.ret = NoneV
             /\ elements' = elements
             /\ heap' = heap]_vars

\* x * y of elements of two algebras, both holding elements, has just raised.
C7_Witness ==
    /\ last.op = "mul"
    /\ CrossAlgebra("mul", last.l, last.r)
    /\ last.exc = "ValueError"
    /\ \A a \in algs : elements[a] # <<>>

\* v is an element of a Magma or Semigroup class and w a foreign value: an
\* int, a list, or an element of a plain base algebra.
ElementAndForeign(v, w) ==
    /\ v.t = "elem"
    /\ \/ heap[v.v].cls \in {"magma.MagmaElement", "magma/__init__.MagmaElement"}
       \/ IsSubclass(heap[v.v].cls, "SemigroupElement")
    /\ w.t \in {"int", "list", "plain"}

\* C8: a Magma or Semigroup element times a foreign value, the foreign
\* value on either side, raises TypeError and changes no registry.
C8_ForeignOperandTypeError ==
    [][(/\ last'.op = "mul"
        /\ \/ ElementAndForeign(last'.l, last'.r)
           \/ ElementAndForeign(last'.r, last'.l))
          => /\ last'.exc = "TypeError"
             /\ last'.ret = NoneV
             /\ elements' = elements
             /\ heap' = heap]_vars

\* A plain base element times a Magma element has just raised TypeError.
C8_Witness ==
    /\ last.op = "mul"
    /\ last.l.t = "plain"
    /\ ElementAndForeign(last.r, last.l)
    /\ heap[last.r.v].cls = "magma/__init__.MagmaElement"
    /\ last.exc = "TypeError"

\* p_1 = xr, p_(k+1) = mult(xr, p_k).
RECURSIVE RightNestedPower(_, _, _)
RightNestedPower(a, xr, n) ==
    IF n <= 1 THEN xr ELSE _mult(a, xr, RightNestedPower(a, xr, n - 1))

\* C9: for a Magma or Semigroup element x and n > 0, x ** n is the
\* registry's element A(p_n), p_1 = x(), p_(k+1) = mult(x(), p_k), and
\* x ** 1 is x.
C9_PositivePowerRightNested ==
    (/\ last.op = "pow"
     /\ heap[last.l.v].cls \in {"magma.MagmaElement", "SemigroupElement"}
     /\ last.r.v > 0)
        => /\ last.exc = "none"
           /\ last.ret.t = "elem"
           /\ IsRegistryEntry(heap[last.l.v].alg,
                              RightNestedPower(heap[last.l.v].alg,
                                               BaseElement_call(heap, last.l.v), last.r.v),
                              last.ret.v)
           /\ last.r.v = 1 => last.ret = last.l

\* x ** 3 has just returned where the product is not associative at x().
C9_Witness ==
    /\ last.op = "pow"
    /\ last.exc = "none"
    /\ heap[last.l.v].cls = "magma.MagmaElement"
    /\ last.r.v = 3
    /\ LET A == heap[last.l.v].alg
           xr == BaseElement_call(heap, last.l.v)
       IN  _mult(A, xr, _mult(A, xr, xr)) # _mult(A, _mult(A, xr, xr), xr)

\* q_0 = one, q_(k+1) = mult(q_k, xr).
RECURSIVE LeftFoldPower(_, _, _)
LeftFoldPower(a, xr, n) ==
    IF n <= 0 THEN _one(a) ELSE _mult(a, LeftFoldPower(a, xr, n - 1), xr)

\* C10: for a Monoid element x and n >= 0, x ** n is the registry's element
\* A(q_n), q_0 = one, q_(k+1) = mult(q_k, x()), and x ** 0 is A(one).
C10_MonoidPowerLeftFold ==
    (/\ last.op = "pow"
     /\ IsSubclass(heap[last.l.v].cls, "MonoidElement")
     /\ last.r.v >= 0)
        => /\ last.exc = "none"
           /\ last.ret.t = "elem"
           /\ IsRegistryEntry(heap[last.l.v].alg,
                              LeftFoldPower(heap[last.l.v].alg,
                                            BaseElement_call(heap, last.l.v), last.r.v),
                              last.ret.v)
           /\ last.r.v = 0 => IsRegistryEntry(heap[last.l.v].alg, _one(heap[last.l.v].alg),
                                               last.ret.v)

\* x ** 0 has just registered the identity as a new element.
C10_Witness ==
    /\ last.op = "pow"
    /\ last.exc = "none"
    /\ heap[last.l.v].cls = "MonoidElement"
    /\ last.r.v = 0
    /\ last.ret.v = Len(heap)
    /\ last.ret # last.l

\* The exponent n is outside the domain of the __pow__ of element class c.
OutsideExponentDomain(c, n) ==
    \/ c \in {"magma.MagmaElement", "SemigroupElement"} /\ n <= 0
    \/ c \in {"MonoidElement", "RingElement"} /\ n < 0

\* C11: x ** n raises ValueError when n is outside the exponent domain of
\* x's structure (n <= 0 for Magma and Semigroup elements, n < 0 for Monoid
\* and Ring elements), and the failed call leaves every registry, and the
\* set of element objects, as it was.
C11_PowOutsideDomainValueError ==
    [][(/\ last = Idle
        /\ last'.op = "pow"
        /\ OutsideExponentDomain(heap[last'.l.v].cls, last'.r.v))
       => (/\ last'.exc = "ValueError"
           /\ elements' = elements
           /\ heap' = heap)]_vars

\* A Ring element has just been raised to a negative power.
C11_Witness ==
    /\ last.op = "pow"
    /\ last.exc = "ValueError"
    /\ last.r.v < 0
    /\ heap[last.l.v].cls = "RingElement"

\* The product of n copies of the rep r in algebra a (n >= 1).
RECURSIVE ProductOfCopies(_, _, _)
ProductOfCopies(a, r, n) ==
    IF n <= 1 THEN r ELSE _mult(a, r, ProductOfCopies(a, r, n - 1))

\* p is the outcome of x ** (-n), i of x.invert() run after it and q of
\* i ** n run after that.
InversePowersAgree(p, i, q, x, n) ==
    /\ p.exc = "none" /\ i.exc = "none" /\ q.exc = "none"
    /\ BaseElement_call(p.heap, p.ret.v)
         = ProductOfCopies(p.heap[x].alg, _inv(p.heap[x].alg, BaseElement_call(p.heap, x)), n)
    /\ PyEq(q.heap, p.ret.v, q.ret.v)
    /\ PyEq(q.heap, q.ret.v, p.ret.v)
    /\ n = 1 => PyEq(i.heap, p.ret.v, i.ret.v) /\ PyEq(i.heap, i.ret.v, p.ret.v)

InvertThenPower(p, i, x, n) ==
    InversePowersAgree(p, i, PyPow(i.elements, i.heap, i.ret.v, n), x, n)

NegativePowerThenInvert(p, x, n) ==
    InvertThenPower(p, GroupElement_invert(p.elements, p.heap, x), x, n)

\* C12: for a Group element x and every n >= 1, x ** (-n) == x.invert() ** n,
\* the rep of x ** (-n) is the product of n copies of inv(x()), and
\* x ** (-1) == x.invert().
C12_NegativePowerIsPowerOfInverse ==
    last = Idle =>
        \A x \in 1..Len(heap) :
            heap[x].cls = "GroupElement" =>
                \A n \in 1..MaxExp :
                    NegativePowerThenInvert(PyPow(elements, heap, x, -n), x, n)

\* A Group element other than the identity has just been raised to the
\* power -2.
C12_Witness ==
    /\ last.op = "pow"
    /\ last.exc = "none"
    /\ last.r.v = -2
    /\ heap[last.l.v].cls = "GroupElement"
    /\ BaseElement_call(heap, last.l.v) # _one(heap[last.l.v].alg)
    /\ BaseElement_call(heap, last.ret.v)
         = ProductOfCopies(heap[last.l.v].alg,
                           _inv(heap[last.l.v].alg, BaseElement_call(heap, last.l.v)), 2)

\* The sum of n copies of the rep r in algebra a (n >= 1).
RECURSIVE SumOfCopies(_, _, _)
SumOfCopies(a, r, n) ==
    IF n <= 1 THEN r ELSE _add(a, r, SumOfCopies(a, r, n - 1))

\* res returned the element A(rep) finds registered.
ReturnsCanonical(res, a, rep) ==
    /\ res.exc = "none"
    /\ Call(res.elements, res.heap, a, rep) = Out(res.elements, res.heap, "none", res.ret)

\* p is the outcome of x * n and q of n * x run after it.
IntMultiples(p, q, x, n) ==
    IF n > 0
    THEN /\ ReturnsCanonical(p, p.heap[x].alg,
                             SumOfCopies(p.heap[x].alg, BaseElement_call(p.heap, x), n))
         /\ q.exc = "none"
         /\ q.ret = p.ret
    ELSE p.exc = "ValueError" /\ q.exc = "ValueError"

TimesThenRightTimes(p, x, n) ==
    IntMultiples(p, PyMul(p.elements, p.heap, IntV(n), Elem(x)), x, n)

\* C13: for an element x of a CommutativeSemigroup or of an
\* AdditiveSemigroup and an int n > 0, x * n is the registry element for the
\* sum of n copies of x() and n * x is that same object; for n <= 0 both
\* raise ValueError.
C13_IntMultipleCanonicalBothSides ==
    last = Idle =>
        \A x \in 1..Len(heap) :
            heap[x].cls \in {"CommutativeSemigroupElement", "AdditiveSemigroupElement"} =>
                \A n \in (-MaxExp)..MaxExp :
                    TimesThenRightTimes(PyMul(elements, heap, Elem(x), IntV(n)), x, n)

\* p is the outcome of x * 0 and q of 0 * x run after it.
ZeroMultiples(p, q, x) ==
    /\ ReturnsCanonical(p, p.heap[x].alg, UserZero(p.heap[x].alg))
    /\ q.exc = "none"
    /\ q.ret = p.ret

TimesZeroThenZeroTimes(p, x) ==
    ZeroMultiples(p, PyMul(p.elements, p.heap, IntV(0), Elem(x)), x)

\* C14: for every element x of a CommutativeMonoid A, x * 0 and 0 * x are
\* the one object A(zero), and x * n raises ValueError for n < 0.
C14_TimesZeroIsZeroElement ==
    last = Idle =>
        \A x \in 1..Len(heap) :
            heap[x].cls = "CommutativeMonoidElement" =>
                /\ TimesZeroThenZeroTimes(PyMul(elements, heap, Elem(x), IntV(0)), x)
                /\ \A n \in (-MaxExp)..(-1) :
                        PyMul(elements, heap, Elem(x), IntV(n)).exc = "ValueError"

\* An element other than zero has just been multiplied by 0, which gave the
\* zero element.
C14_Witness ==
    /\ last.op = "mul"
    /\ last.exc = "none"
    /\ last.l.t = "elem"
    /\ last.r = IntV(0)
    /\ heap[last.l.v].cls = "CommutativeMonoidElement"
    /\ BaseElement_call(heap, last.l.v) # _zero(heap[last.l.v].alg)
    /\ BaseElement_call(heap, last.ret.v) = _zero(heap[last.l.v].alg)

\* n is an int multiple the element class c accepts.
ValidMultiple(c, n) ==
    \/ c \in {"CommutativeSemigroupElement", "AdditiveSemigroupElement"} /\ n > 0
    \/ c = "CommutativeMonoidElement" /\ n >= 0

\* Each of the five operations ran without exception, and the last two
\* returned the same object: s is x + y, p is n * s, a is n * x, b is n * y,
\* c is a + b.
Distributes(s, p, a, b, c) ==
    /\ s.exc = "none" /\ p.exc = "none" /\ a.exc = "none" /\ b.exc = "none" /\ c.exc = "none"
    /\ c.ret = p.ret

SumOfMultiples(s, p, a, b) ==
    b.exc = "none" /\ Distributes(s, p, a, b, PyAdd(b.elements, b.heap, a.ret, b.ret))

MultipleOfRight(s, p, a, y, n) ==
    a.exc = "none" /\ SumOfMultiples(s, p, a, PyMul(a.elements, a.heap, IntV(n), Elem(y)))

MultipleOfLeft(s, p, x, y, n) ==
    p.exc = "none" /\ MultipleOfRight(s, p, PyMul(p.elements, p.heap, IntV(n), Elem(x)), y, n)

MultipleOfSum(s, x, y, n) ==
    s.exc = "none" /\ MultipleOfLeft(s, PyMul(s.elements, s.heap, IntV(n), s.ret), x, y, n)

\* C15: for elements x and y of one CommutativeSemigroup, CommutativeMonoid
\* or AdditiveSemigroup whose add is commutative and associative, and every
\* int n the structure accepts, n * (x + y) is the same object as
\* n * x + n * y.
C15_IntMultipleDistributes ==
    last = Idle =>
        \A x, y \in 1..Len(heap) :
            (/\ heap[x].alg = heap[y].alg
             /\ heap[x].cls \in {"CommutativeSemigroupElement", "CommutativeMonoidElement",
                                  "AdditiveSemigroupElement"})
            => \A n \in 0..MaxExp :
                   ValidMultiple(heap[x].cls, n) =>
                       MultipleOfSum(PyAdd(elements, heap, Elem(x), Elem(y)), x, y, n)

\* C16: for every element x of a Ring or Field A, -x returns the registry
\* element A(negate(x())).
C16_NegationIsCanonical ==
    last = Idle =>
        \A x \in 1..Len(heap) :
            IsSubclass(heap[x].cls, "RingElement") =>
                ReturnsCanonical(PyNeg(elements, heap, x), heap[x].alg,
                                 _neg(heap[x].alg, BaseElement_call(heap, x)))

\* zero plus n copies of the rep r in algebra a (n >= 0).
RECURSIVE ZeroPlusCopies(_, _, _)
ZeroPlusCopies(a, r, n) ==
    IF n <= 0 THEN _zero(a) ELSE _add(a, ZeroPlusCopies(a, r, n - 1), r)

\* p is the outcome of x * n and q of n * x run after it.
RingIntMultiples(p, q, x, n) ==
    /\ ReturnsCanonical(p, p.heap[x].alg,
                        ZeroPlusCopies(p.heap[x].alg, BaseElement_call(p.heap, x), n))
    /\ q.exc = "none"
    /\ q.ret = p.ret

RingTimesThenRightTimes(p, x, n) ==
    RingIntMultiples(p, PyMul(p.elements, p.heap, IntV(n), Elem(x)), x, n)

\* C17: for a Ring element x, x * n and n * x with an int n >= 0 are the
\* registry element for the sum of n copies of x(), and x * y with an
\* element y of the same ring is the registry element A(mult(x(), y())).
C17_RingTimesDispatch ==
    last = Idle =>
        \A x \in 1..Len(heap) :
            IsSubclass(heap[x].cls, "RingElement") =>
                /\ \A n \in 0..MaxExp :
                        RingTimesThenRightTimes(PyMul(elements, heap, Elem(x), IntV(n)), x, n)
                /\ \A y \in 1..Len(heap) :
                        heap[y].alg = heap[x].alg =>
                            ReturnsCanonical(PyMul(elements, heap, Elem(x), Elem(y)),
                                             heap[x].alg,
                                             _mult(heap[x].alg, BaseElement_call(heap, x),
                                                   BaseElement_call(heap, y)))

\* 2 * x has just been computed for a Ring element x other than zero, and
\* gave the element of x() + x().
C17_Witness ==
    /\ last.op = "mul"
    /\ last.exc = "none"
    /\ last.l = IntV(2)
    /\ heap[last.r.v].cls = "RingElement"
    /\ BaseElement_call(heap, last.r.v) # _zero(heap[last.r.v].alg)
    /\ BaseElement_call(heap, last.ret.v)
         = ZeroPlusCopies(heap[last.r.v].alg, BaseElement_call(heap, last.r.v), 2)

\* one multiplied by n copies of the rep r in algebra a (n >= 0).
RECURSIVE OneTimesCopies(_, _, _)
OneTimesCopies(a, r, n) ==
    IF n <= 0 THEN _one(a) ELSE _mult(a, OneTimesCopies(a, r, n - 1), r)

\* C18: for a Field element x with an inverse (a non-zero element) and
\* n < 0, x ** n is the registry element A(p), p the product of -n copies of
\* invert(x()); for n >= 0 it is the registry element for one multiplied by
\* n copies of x().
C18_FieldPowerIsCanonical ==
    last = Idle =>
        \A x \in 1..Len(heap) :
            (heap[x].cls = "FieldElement" /\ Invertible(BaseElement_call(heap, x))) =>
                \A n \in (-MaxExp)..MaxExp :
                    ReturnsCanonical(
                        PyPow(elements, heap, x, n), heap[x].alg,
                        IF n < 0
                        THEN ProductOfCopies(heap[x].alg,
                                             _inv(heap[x].alg, BaseElement_call(heap, x)), -n)
                        ELSE OneTimesCopies(heap[x].alg, BaseElement_call(heap, x), n))

\* The rep x * n holds for an AbelianGroup element of rep r.
IntMultipleRep(a, r, n) ==
    IF n < 0 THEN SumOfCopies(a, _neg(a, r), -n) ELSE ZeroPlusCopies(a, r, n)

\* p is the outcome of x * n, q of n * x run after it, m of x * (-n) run
\* after that and s of p's element + m's element.
SignedMultiples(p, q, m, s, x, n) ==
    /\ p.exc = "none" /\ q.exc = "none" /\ m.exc = "none"
    /\ BaseElement_call(p.heap, p.ret.v)
         = IntMultipleRep(p.heap[x].alg, BaseElement_call(p.heap, x), n)
    /\ BaseElement_call(q.heap, q.ret.v) = BaseElement_call(p.heap, p.ret.v)
    /\ ReturnsCanonical(s, p.heap[x].alg, _zero(p.heap[x].alg))

SumWithOpposite(p, q, m, x, n) ==
    m.exc = "none" /\ SignedMultiples(p, q, m, PyAdd(m.elements, m.heap, p.ret, m.ret), x, n)

ThenOppositeMultiple(p, q, x, n) ==
    q.exc = "none" /\ SumWithOpposite(p, q, PyMul(q.elements, q.heap, Elem(x), IntV(-n)), x, n)

ThenRightMultiple(p, x, n) ==
    p.exc = "none" /\ ThenOppositeMultiple(p, PyMul(p.elements, p.heap, IntV(n), Elem(x)), x, n)

\* C19: for an AbelianGroup element x and an int n, x * n and n * x hold the
\* sum of -n copies of negate(x()) when n < 0 and zero plus n copies of x()
\* when n >= 0, and x * n + x * (-n) is the zero element A(zero).
C19_SignedIntMultiples ==
    last = Idle =>
        \A x \in 1..Len(heap) :
            IsSubclass(heap[x].cls, "AbelianGroupElement") =>
                \A n \in (-MaxExp)..MaxExp :
                    ThenRightMultiple(PyMul(elements, heap, Elem(x), IntV(n)), x, n)

\* An AbelianGroup element other than zero has just been multiplied by -2.
C19_Witness ==
    /\ last.op = "mul"
    /\ last.exc = "none"
    /\ last.l.t = "elem"
    /\ last.r = IntV(-2)
    /\ heap[last.l.v].cls = "AbelianGroupElement"
    /\ BaseElement_call(heap, last.l.v) # _zero(heap[last.l.v].alg)
    /\ BaseElement_call(heap, last.ret.v)
         = SumOfCopies(heap[last.l.v].alg,
                       _neg(heap[last.l.v].alg, BaseElement_call(heap, last.l.v)), 2)

\* C20: e1 == e2 is True exactly when e2 is an instance of e1's element type
\* and the two reps are equal, whether or not e1 and e2 belong to the same
\* algebra; equal elements of different algebras are different objects.
C20_EqualityComparesReps ==
    \A e1, e2 \in 1..Len(heap) :
        /\ PyEq(heap, e1, e2)
             <=> (/\ IsInstance(heap, Elem(e2), heap[e1].cls)
                  /\ BaseElement_call(heap, e1) = BaseElement_call(heap, e2))
        /\ (PyEq(heap, e1, e2) /\ heap[e1].alg # heap[e2].alg) => e1 # e2

\* The algebras the operation recorded in l works on: the algebra called,
\* or the algebras of the element operands.
AlgebrasOf(l, hp) ==
    IF l.op = "call" THEN {l.alg}
    ELSE {hp[v.v].alg : v \in {w \in {l.l, l.r} : w.t = "elem"}}

\* C21: every algebra owns its registry: an operation on elements of an
\* algebra (a call, product, sum, power, inverse or negation) leaves the
\* registry of every other algebra as it was, also when both were built
\* from the same operation function, and no object is registered in two
\* algebras, so A(r) is never B(r).
C21_RegistriesAreSeparate ==
    [][(last = Idle /\ last' # Idle)
          => /\ \A b \in algs \ AlgebrasOf(last', heap) : elements'[b] = elements[b]
             /\ \A a, b \in algs :
                    a # b => \A k \in DOMAIN elements'[a], j \in DOMAIN elements'[b] :
                                 /\ elements'[a][k] # elements'[b][j]
                                 /\ heap'[elements'[a][k]].alg = a]_vars

\* A product has just registered a new element in one of two Semigroups
\* built from the same mult, while the other holds an element of the same
\* rep.
C21_Witness ==
    /\ last.op = "mul"
    /\ last.exc = "none"
    /\ last.ret.v = Len(heap)
    /\ heap[last.ret.v].cls = "SemigroupElement"
    /\ \E b \in algs :
            /\ b # heap[last.ret.v].alg
            /\ heap[last.ret.v].rep \in DOMAIN elements[b]
            /\ heap[last.ret.v].rep \in DOMAIN elements[heap[last.ret.v].alg]

\* The registry keys, with their algebra, that els2 has and els has not.
NewKeys(els, els2) ==
    UNION {{<<a, k>> : k \in DOMAIN els2[a] \ DOMAIN els[a]} : a \in DOMAIN els}

\* The operation recorded in l is x ** n, x * n or n * x with an int n.
IsIntOperation(l) ==
    \/ l.op = "pow"
    \/ l.op = "mul" /\ (l.l.t = "int" \/ l.r.t = "int")

IntOperand(l) == IF l.l.t = "int" THEN l.l.v ELSE l.r.v

ElementOperand(l) == IF l.l.t = "int" THEN l.r.v ELSE l.l.v

\* The key of the result of the operation recorded in l.
ResultKey(l, hp2) == {<<hp2[l.ret.v].alg, hp2[l.ret.v].rep>>}

\* The keys of the second to the (-n)-th power (multiple) of the inverse
\* (opposite) of x: the elements a negative power or multiple passes through.
PassedThrough(l, hp) ==
    LET x == ElementOperand(l)
        a == hp[x].alg
    IN  {<<a, IF l.op = "pow"
              THEN ProductOfCopies(a, _inv(a, BaseElement_call(hp, x)), j)
              ELSE SumOfCopies(a, _neg(a, BaseElement_call(hp, x)), j)>> :
            j \in 2..(-IntOperand(l))}

\* Every entry of els is an entry of els2, as the same object unchanged.
EntriesKept(els, hp, els2, hp2) ==
    \A a \in DOMAIN els : \A k \in DOMAIN els[a] :
        /\ k \in DOMAIN els2[a]
        /\ els2[a][k] = els[a][k]
        /\ hp2[els[a][k]] = hp[els[a][k]]

\* C24 as stated: a successful x * y, x + y, x ** n or x * n keeps every
\* registry entry and adds at most the key of its result.
C24_AddsOnlyResultKey ==
    [][(last = Idle /\ last'.op \in {"mul", "add", "pow"} /\ last'.exc = "none")
          => /\ EntriesKept(elements, heap, elements', heap')
             /\ NewKeys(elements, elements') \subseteq ResultKey(last', heap')]_vars

\* C24 amended: a successful x * y, x + y, x ** n or x * n keeps every
\* registry entry; it adds at most the key of its result when the operands
\* are two elements or the int is not negative, and with a negative int n
\* at most the keys of the 2nd to the (-n)-th power (multiple) of the
\* inverse (opposite) of x, the last of them being the result's.
C24_AddsResultOrPassedThroughKeys ==
    [][(last = Idle /\ last'.op \in {"mul", "add", "pow"} /\ last'.exc = "none")
          => /\ EntriesKept(elements, heap, elements', heap')
             /\ IF IsIntOperation(last') /\ IntOperand(last') < 0
                THEN NewKeys(elements, elements') \subseteq PassedThrough(last', heap)
                ELSE NewKeys(elements, elements') \subseteq ResultKey(last', heap')]_vars

\* x ** (-3) has just returned x itself for a Field element x, and the
\* registry holds, besides x, the element of the square of the inverse.
C24_Witness ==
    /\ last.op = "pow"
    /\ last.exc = "none"
    /\ last.r.v = -3
    /\ heap[last.l.v].cls = "FieldElement"
    /\ last.ret = last.l
    /\ Len(heap) = 2
    /\ \E k \in DOMAIN elements[heap[last.l.v].alg] :
            /\ k # heap[last.l.v].rep
            /\ k = ProductOfCopies(heap[last.l.v].alg,
                                   _inv(heap[last.l.v].alg, heap[last.l.v].rep), 2)

\* C25: on an element x of a Monoid (mult associative, one a two-sided
\* identity) and for every n > 0, MonoidElement.__pow__, a left fold from
\* one, and SemigroupElement.__pow__, a right-nested product from x(),
\* return the same element and leave the same registry.
C25_MonoidPowerIsSemigroupPower ==
    last = Idle =>
        \A x \in 1..Len(heap) :
            IsSubclass(heap[x].cls, "MonoidElement") =>
                \A n \in 1..MaxExp :
                    /\ MonoidElement_pow(elements, heap, x, n).exc = "none"
                    /\ MonoidElement_pow(elements, heap, x, n)
                         = SemigroupElement_pow(elements, heap, x, n)

\* A Monoid element other than one has just been raised to the power 3.
C25_Witness ==
    /\ last.op = "pow"
    /\ last.exc = "none"
    /\ last.r.v = 3
    /\ heap[last.l.v].cls = "MonoidElement"
    /\ heap[last.l.v].rep \notin {0, _one(heap[last.l.v].alg)}
    /\ heap[last.ret.v].rep = RightNestedPower(heap[last.l.v].alg, heap[last.l.v].rep, 3)

\* C26: in a CommutativeSemigroup or CommutativeMonoid, algebras with
\* addition only, x * y for two elements of the algebra raises ValueError
\* and leaves every registry and element object as it was.
C26_ElementProductValueError ==
    [][(/\ last = Idle
        /\ last'.op = "mul"
        /\ last'.l.t = "elem" /\ last'.r.t = "elem"
        /\ heap[last'.l.v].cls \in {"CommutativeSemigroupElement", "CommutativeMonoidElement"}
        /\ heap[last'.l.v].alg = heap[last'.r.v].alg)
       => (/\ last'.exc = "ValueError"
           /\ elements' = elements
           /\ heap' = heap)]_vars

\* Two different elements of one CommutativeSemigroup have just been
\* multiplied.
C26_Witness ==
    /\ last.op = "mul"
    /\ last.exc = "ValueError"
    /\ last.l.t = "elem" /\ last.r.t = "elem"
    /\ last.l # last.r
    /\ heap[last.l.v].cls = "CommutativeSemigroupElement"
    /\ heap[last.l.v].alg = heap[last.r.v].alg

(***************************************************************************)
(* The while loops of x ** n and x * n (int n), one iteration a step.      *)
(* loop.r1 is x(), loop.r the rep the loop has built, loop.n its counter,  *)
(* loop.n0 the exponent or multiple given and loop.count the number of     *)
(* calls of a stored function (mult, add, invert, negate) made so far.     *)
(***************************************************************************)
\* The __pow__ of element class c: "right" is r = x(); while n > 1, "left"
\* is r = one; while n > 0, "signed" is "left" with the branch
\* g = g_inv = invert; while n < -1 for n < 0.
PowShape(c) ==
    CASE c \in {"magma.MagmaElement", "SemigroupElement"} -> "right"
      [] c \in {"MonoidElement", "RingElement"} -> "left"
      [] c \in {"GroupElement", "FieldElement"} -> "signed"
      [] OTHER -> "none"

\* The __mul__ of element class c with an int.
MulShape(c) ==
    CASE c \in {"CommutativeSemigroupElement", "AdditiveSemigroupElement"} -> "right"
      [] c = "CommutativeMonoidElement" -> "left"
      [] c \in {"AbelianGroupElement", "RingElement", "FieldElement"} -> "signed"
      [] OTHER -> "none"

LoopShape(a, op) ==
    IF op = "pow" THEN PowShape(ElementClass(a)) ELSE MulShape(ElementClass(a))

LoopOperation(a, op, x, y) == IF op = "pow" THEN _mult(a, x, y) ELSE _add(a, x, y)

LoopUnit(a, op) == IF op = "pow" THEN _one(a) ELSE _zero(a)

LoopInverse(a, op, x) == IF op = "pow" THEN _inv(a, x) ELSE _neg(a, x)

\* The reps the elements of algebra a hold.
StoredReps(a) == {UserNarrow(a, h) : h \in RawReps(a)}

InLoop(a, op, r1, r, n, n0, count) ==
    [pc |-> "loop", alg |-> a, op |-> op, r1 |-> r1, r |-> r, n |-> n, n0 |-> n0,
     count |-> count]

Raised(a, op, r1, n0) ==
    [pc |-> "raised", alg |-> a, op |-> op, r1 |-> r1, r |-> r1, n |-> n0, n0 |-> n0,
     count |-> 0]

\* The statements before the while loop.
Entered(a, op, r1, n0) ==
    CASE LoopShape(a, op) = "right" ->
            IF n0 > 0 THEN InLoop(a, op, r1, r1, n0, n0, 0) ELSE Raised(a, op, r1, n0)
      [] LoopShape(a, op) = "left" ->
            IF n0 >= 0 THEN InLoop(a, op, r1, LoopUnit(a, op), n0, n0, 0)
            ELSE Raised(a, op, r1, n0)
      [] LoopShape(a, op) = "signed" ->
            IF n0 >= 0 THEN InLoop(a, op, r1, LoopUnit(a, op), n0, n0, 0)
            ELSE IF op = "pow" /\ UserInvRaises(a, r1) THEN Raised(a, op, r1, n0)
            ELSE InLoop(a, op, r1, LoopInverse(a, op, r1), n0, n0, 1)

\* The condition of the while statement.
LoopCondition(l) ==
    CASE LoopShape(l.alg, l.op) = "right" -> l.n > 1
      [] LoopShape(l.alg, l.op) = "left" -> l.n > 0
      [] LoopShape(l.alg, l.op) = "signed" -> IF l.n0 >= 0 THEN l.n > 0 ELSE l.n < -1

\* A body that calls the stored function and leaves the counter alone.
LoopBody_counter_stuck(l) ==
    [l EXCEPT !.r = LoopOperation(l.alg, l.op, l.r, l.r1), !.count = l.count + 1]

\* The body of the while statement. In the branch for n < 0 the element
\* g_inv was made before the loop (the call counted at entry); its rep is
\* LoopInverse(r1).
LoopBody(l) ==
    CASE LoopShape(l.alg, l.op) = "right" ->
            [l EXCEPT !.r = LoopOperation(l.alg, l.op, l.r1, l.r), !.n = l.n - 1,
                      !.count = l.count + 1]
      [] LoopShape(l.alg, l.op) = "signed" /\ l.n0 < 0 ->
            [l EXCEPT !.r = LoopOperation(l.alg, l.op, l.r, LoopInverse(l.alg, l.op, l.r1)),
                      !.n = l.n + 1, !.count = l.count + 1]
      [] OTHER ->
            [l EXCEPT !.r = LoopOperation(l.alg, l.op, l.r, l.r1), !.n = l.n - 1,
                      !.count = l.count + 1]

AlgebraAtRest == algs = {} /\ elements = <<>> /\ heap = <<>> /\ last = Idle

LoopInit == LoopAtRest /\ AlgebraAtRest /\ ProtocolAtRest /\ OrderAtRest

\* x ** n0 or x * n0 is called on an element of rep r1.
LoopEnter ==
    /\ loop = NoLoop
    /\ \E a \in Algebras, op \in {"pow", "mul"} :
            /\ LoopShape(a, op) # "none"
            /\ \E r1 \in StoredReps(a), n0 \in (-MaxExp)..MaxExp :
                    loop' = Entered(a, op, r1, n0)
    /\ UNCHANGED <<algebraVars, protocolVars, orderVars>>

\* One iteration.
LoopIterate ==
    /\ loop.pc = "loop"
    /\ LoopCondition(loop)
    /\ loop' = LoopBody(loop)
    /\ UNCHANGED <<algebraVars, protocolVars, orderVars>>

\* The condition is false: the operator returns the element of loop.r.
LoopReturn ==
    /\ loop.pc = "loop"
    /\ ~LoopCondition(loop)
    /\ loop' = [loop EXCEPT !.pc = "done"]
    /\ UNCHANGED <<algebraVars, protocolVars, orderVars>>

\* The caller takes the element or the exception.
LoopLeave ==
    /\ loop.pc \in {"done", "raised"}
    /\ loop' = NoLoop
    /\ UNCHANGED <<algebraVars, protocolVars, orderVars>>

LoopNext == LoopEnter \/ LoopIterate \/ LoopReturn \/ LoopLeave

\* A call that has begun runs on: the interpreter does not stop in a loop.
LoopSpec ==
    LoopInit /\ [][LoopNext]_vars /\ WF_vars(LoopIterate) /\ WF_vars(LoopReturn)

\* The rep of the element x ** n0 (x * n0) returns when x, of rep r1, is the
\* only element of algebra a, as the operators compute it.
OperatorResult(a, op, r1, n0) ==
    IF op = "pow"
    THEN PyPow([b \in {a} |-> (r1 :> 1)], <<BaseElement_init(a, ElementClass(a), r1)>>, 1, n0)
    ELSE PyMul([b \in {a} |-> (r1 :> 1)], <<BaseElement_init(a, ElementClass(a), r1)>>,
               Elem(1), IntV(n0))

LoopMatchesOperator(l, res) ==
    IF l.pc = "raised" THEN res.exc = "ValueError"
    ELSE res.exc = "none" /\ BaseElement_call(res.heap, res.ret.v) = l.r

Abs(n) == IF n < 0 THEN -n ELSE n

\* C23: for every int n and every element x, x ** n and x * n end, with an
\* element or an exception, after at most |n| calls of a stored function:
\* every iteration moves the counter one step toward its bound, the number
\* of calls never exceeds |n|, a loop that has begun reaches its return,
\* and the rep at the return is the one the operator returns.
C23_LoopsTerminateWithinN ==
    /\ [](loop.count <= Abs(loop.n0))
    /\ []((loop.pc \in {"done", "raised"})
            => LoopMatchesOperator(loop, OperatorResult(loop.alg, loop.op, loop.r1, loop.n0)))
    /\ [][(loop.pc = "loop" /\ loop'.pc = "loop")
            => (Abs(loop'.n) = Abs(loop.n) - 1 /\ loop'.count = loop.count + 1)]_vars
    /\ (loop.pc = "loop") ~> (loop.pc = "done")

\* The loop of x ** (-3) on a Group element has returned after 3 calls.
C23_Witness ==
    /\ loop.pc = "done"
    /\ loop.n0 = -MaxExp
    /\ loop.op = "pow"
    /\ ElementClass(loop.alg) = "GroupElement"
    /\ loop.count = MaxExp

(***************************************************************************)
(* Protocol-style group elements: every element carries only its rep; the  *)
(* stored operation, the identity rep, the inverse function and the        *)
(* identity element are attributes of the element's class, assigned by     *)
(* every constructor call. klass[c] holds the attributes of class c, made  *)
(* the elements a client holds, outcome the last call and what it gave.    *)
(***************************************************************************)
\* A client subclass of the multiplicative and of the additive element class.
ProtocolClasses == {"GroupElement", "AbelianGroupElement"}

\* Functions a client passes as the operation and as the inverse.
OpNames == {"add_mod", "mult_mod"}

InverseNames == {"neg_mod", "inv_mod"}

ProtocolReps == 0..(Modulus - 1)

UserOp(f, m, n) == IF f = "add_mod" THEN (m + n) % Modulus ELSE (m * n) % Modulus

UserInverse(f, m) ==
    IF f = "neg_mod" THEN (Modulus - m) % Modulus
    ELSE IF \E k \in ProtocolReps : (m * k) % Modulus = 1
         THEN CHOOSE k \in ProtocolReps : (m * k) % Modulus = 1
         ELSE m

\* Element.__init__: an object of class c holding _rep.
Element_init(c, rep) == [cls |-> c, rep |-> rep]

\* Element.__call__
Element_call(x) == x.rep

NoElement == [cls |-> "None", rep |-> 0]

\* The class before its first constructor call: no attribute is assigned.
NoAttrs == [set |-> FALSE, identity |-> 0, op |-> "", inverse |-> "", unit |-> NoElement]

\* What a call gives: the exception raised ("none" if it returned), the
\* element returned and the class attributes it leaves.
POut(exc, ret, k) == [exc |-> exc, ret |-> ret, k |-> k]

\* Me._identity = identity; Me._mult = mult; Me._inverse = inverse
AssignAttrs(k, identity, op, inverse) ==
    [k EXCEPT !.set = TRUE, !.identity = identity, !.op = op, !.inverse = inverse]

\* The two checks of the identity contract in __init__.
ContractBroken(rep, identity, op) ==
    \/ UserOp(op, identity, identity) # identity
    \/ ~(UserOp(op, rep, identity) = rep /\ rep = UserOp(op, identity, rep))

\* __init__ from "if one is None" on, the attributes k1 already assigned.
\* The nested call Me(identity, identity, mult, inverse, me) assigns the
\* same attributes, passes both checks (the first has just passed for the
\* same arguments), takes the branch of a given one and returns the new
\* element of rep identity, which the outer call stores.
ProtocolGroupElement_init_one(k1, c, rep, identity, one) ==
    IF one = NoElement
    THEN IF rep = k1.identity
         THEN POut("none", Element_init(c, rep), [k1 EXCEPT !.unit = Element_init(c, rep)])
         ELSE POut("none", Element_init(c, rep),
                   [k1 EXCEPT !.unit = Element_init(c, identity)])
    ELSE IF <<k1.identity, k1.identity>> = <<identity, identity>>
         THEN POut("none", Element_init(c, rep), [k1 EXCEPT !.unit = one])
         ELSE POut("ValueError", NoElement, k1)

\* GroupElement.__init__ (AbelianGroupElement.__init__ and
\* CommutativeGroupElement.__init__ read the same with add, negate, zero),
\* with the attributes k of the class before the call.
ProtocolGroupElement_init(k, c, rep, identity, op, inverse, one) ==
    IF ContractBroken(rep, identity, op)
    THEN POut("ValueError", NoElement, AssignAttrs(k, identity, op, inverse))
    ELSE ProtocolGroupElement_init_one(AssignAttrs(k, identity, op, inverse), c, rep, identity, one)

\* GroupElement.__mul__ and AbelianGroupElement.__add__
ProtocolGroupElement_mul(k, x, y) ==
    ProtocolGroupElement_init(k, x.cls, UserOp(k.op, Element_call(x), Element_call(y)),
                      k.identity, k.op, k.inverse, NoElement)

\* GroupElement.invert and AbelianGroupElement.__neg__
ProtocolGroupElement_invert(k, x) ==
    ProtocolGroupElement_init(k, x.cls, UserInverse(k.inverse, Element_call(x)),
                      k.identity, k.op, k.inverse, k.unit)

\* GroupElement.__truediv__ (self * g.invert()) and
\* AbelianGroupElement.__sub__ (self + (-g)).
ProtocolGroupElement_truediv(k, x, y) ==
    LET o == ProtocolGroupElement_invert(k, y)
    IN  IF o.exc # "none" THEN o ELSE ProtocolGroupElement_mul(o.k, x, o.ret)

\* while n > 1: g, n = g * self, n - 1, from the outcome o of what ran before.
RECURSIVE ProtocolGroupElement_pow_loop(_, _, _)
ProtocolGroupElement_pow_loop(o, x, n) ==
    IF o.exc # "none" \/ n <= 1 THEN o
    ELSE ProtocolGroupElement_pow_loop(ProtocolGroupElement_mul(o.k, o.ret, x), x, n - 1)

\* GroupElement.__pow__: for n < 0 the name g is read before it is bound.
ProtocolGroupElement_pow(k, x, n) ==
    IF n > 0 THEN ProtocolGroupElement_pow_loop(POut("none", x, k), x, n)
    ELSE IF n < 0
         THEN LET o == ProtocolGroupElement_invert(k, x)
              IN  IF o.exc # "none" THEN o ELSE POut("UnboundLocalError", NoElement, o.k)
         ELSE POut("none", k.unit, k)

\* while n < -1: g, n = g - self, n + 1
RECURSIVE ProtocolAbelianGroupElement_mul_neg_loop(_, _, _)
ProtocolAbelianGroupElement_mul_neg_loop(o, x, n) ==
    IF o.exc # "none" \/ n >= -1 THEN o
    ELSE ProtocolAbelianGroupElement_mul_neg_loop(ProtocolGroupElement_truediv(o.k, o.ret, x), x, n + 1)

\* AbelianGroupElement.__mul__ (CommutativeGroupElement.__mul__)
ProtocolAbelianGroupElement_mul(k, x, n) ==
    IF n > 0 THEN ProtocolGroupElement_pow_loop(POut("none", x, k), x, n)
    ELSE IF n < 0 THEN ProtocolAbelianGroupElement_mul_neg_loop(ProtocolGroupElement_invert(k, x), x, n)
         ELSE POut("none", k.unit, k)

\* AbelianGroupElement.__rmul__: n * x, int.__mul__ having declined.
ProtocolAbelianGroupElement_rmul(k, x, n) == ProtocolAbelianGroupElement_mul(k, x, n)

\* x ** n on a multiplicative element, x * n on an additive one.
ProtocolPower(k, x, n) ==
    IF x.cls = "GroupElement" THEN ProtocolGroupElement_pow(k, x, n)
    ELSE ProtocolAbelianGroupElement_mul(k, x, n)

NoArgs == [rep |-> 0, identity |-> 0, op |-> "", inverse |-> "", one |-> NoElement]

NoCall == [call |-> "none", x |-> NoElement, y |-> NoElement, n |-> 0, args |-> NoArgs,
           exc |-> "none", ret |-> NoElement]

PCalled(call, x, y, n, args, o) ==
    [call |-> call, x |-> x, y |-> y, n |-> n, args |-> args, exc |-> o.exc, ret |-> o.ret]

\* The class of the session.
TheClass == CHOOSE c \in DOMAIN klass : TRUE

\* The client keeps what the call gave: the class keeps its attributes
\* whether the call returned or raised; the element returned and the
\* identity element of the class are the client's to use.
PCommit(call, x, y, n, args, o) ==
    /\ klass' = [klass EXCEPT ![TheClass] = o.k]
    /\ made' = IF o.exc = "none" THEN made \cup {o.ret, o.k.unit} ELSE made
    /\ outcome' = PCalled(call, x, y, n, args, o)
    /\ UNCHANGED <<algebraVars, loopVars, orderVars>>

ProtocolInit ==
    /\ klass \in {(c :> NoAttrs) : c \in ProtocolClasses}
    /\ made = {}
    /\ outcome = NoCall
    /\ AlgebraAtRest /\ LoopAtRest /\ OrderAtRest

\* C(rep, identity, op, inverse) or C(rep, identity, op, inverse, one)
PNew ==
    \E rep \in ProtocolReps, identity \in ProtocolReps, op \in OpNames,
       inverse \in InverseNames, one \in made \cup {NoElement} :
        PCommit("new", NoElement, NoElement, 0,
                [rep |-> rep, identity |-> identity, op |-> op, inverse |-> inverse,
                 one |-> one],
                ProtocolGroupElement_init(klass[TheClass], TheClass, rep, identity, op, inverse, one))

\* x * y (x + y)
PMul ==
    \E x \in made, y \in made :
        PCommit("mul", x, y, 0, NoArgs, ProtocolGroupElement_mul(klass[TheClass], x, y))

\* x.invert() (-x)
PInvert ==
    \E x \in made :
        PCommit("invert", x, NoElement, 0, NoArgs, ProtocolGroupElement_invert(klass[TheClass], x))

\* x / y (x - y)
PTruediv ==
    \E x \in made, y \in made :
        PCommit("truediv", x, y, 0, NoArgs, ProtocolGroupElement_truediv(klass[TheClass], x, y))

\* x ** n (x * n)
PPow ==
    \E x \in made, n \in (-MaxExp)..MaxExp :
        PCommit("pow", x, NoElement, n, NoArgs, ProtocolPower(klass[TheClass], x, n))

\* n * x on an additive element
PRmul ==
    /\ TheClass = "AbelianGroupElement"
    /\ \E x \in made, n \in (-MaxExp)..MaxExp :
            PCommit("rmul", x, NoElement, n, NoArgs,
                    ProtocolAbelianGroupElement_rmul(klass[TheClass], x, n))

ProtocolNext == PNew \/ PMul \/ PInvert \/ PTruediv \/ PPow \/ PRmul

ProtocolSpec == ProtocolInit /\ [][ProtocolNext]_vars

ProtocolTypeOK ==
    /\ DOMAIN klass \subseteq ProtocolClasses
    /\ \A x \in made : x.cls \in ProtocolClasses /\ x.rep \in ProtocolReps

(***************************************************************************)
(* Properties of the protocol-style group elements.                        *)
(***************************************************************************)
\* The class attributes satisfy the identity contract on every rep, so
\* that no constructor call made by an operator raises.
WellFormed(k) ==
    k.set /\ \A r \in ProtocolReps : ~ContractBroken(r, k.identity, k.op)

\* op(...op(op(r, r), r)..., r) with n copies of r, n >= 1.
RECURSIVE RepPower(_, _, _)
RepPower(op, r, n) == IF n <= 1 THEN r ELSE UserOp(op, RepPower(op, r, n - 1), r)

\* The rep of x ** n (x * n) in a group: copies of x() for n > 0, copies of
\* the inverse of x() for n < 0, the identity rep for n = 0.
GroupPowerRep(k, x, n) ==
    IF n > 0 THEN RepPower(k.op, Element_call(x), n)
    ELSE IF n < 0 THEN RepPower(k.op, UserInverse(k.inverse, Element_call(x)), -n)
         ELSE k.identity

ReturnsRep(out, rep) == out.exc = "none" /\ out.ret.rep = rep

\* C27: on a multiplicative protocol-style GroupElement whose class
\* attributes satisfy the identity contract, g ** n returns the element whose
\* rep is the product of |n| copies of inverse(g()) for n < 0, the identity
\* rep for n = 0 and the product of n copies of g() for n > 0.
C27_PowerOfGroupElement ==
    [][(/\ outcome'.call = "pow"
        /\ TheClass = "GroupElement"
        /\ WellFormed(klass[TheClass]))
       => ReturnsRep(outcome', GroupPowerRep(klass[TheClass], outcome'.x, outcome'.n))]_vars

SameStored(k1, k2) ==
    /\ k1.set = k2.set
    /\ k1.identity = k2.identity
    /\ k1.op = k2.op
    /\ k1.inverse = k2.inverse

\* C29: a constructor call whose arguments break the identity contract
\* raises ValueError and leaves the stored operation, identity rep and
\* inverse function of the class as they were before the call.
C29_RejectedCallLeavesClass ==
    [][(/\ outcome'.call = "new"
        /\ ContractBroken(outcome'.args.rep, outcome'.args.identity, outcome'.args.op))
       => (/\ outcome'.exc = "ValueError"
           /\ SameStored(klass[TheClass], klass'[TheClass]))]_vars

UnitIsIdentity(k) == k.unit.rep = k.identity

\* C28: a call accepted without error (a constructor call with or without an
\* explicit one/zero argument, *, +, invert, negation, a power or multiple)
\* on a class that is new or whose C.one (C.zero) holds the identity rep
\* leaves C.one (C.zero) an element whose rep is the identity rep.
C28_UnitKeepsIdentityRep ==
    [][(/\ ~klass[TheClass].set \/ UnitIsIdentity(klass[TheClass])
        /\ outcome'.call # "none"
        /\ outcome'.exc = "none")
       => UnitIsIdentity(klass'[TheClass])]_vars

\* C22: on an additive protocol-style element whose class attributes
\* satisfy the identity contract, x * n and n * x return elements of the same
\* rep: x() added n times for n > 0, the negation of x() added |n| times for
\* n < 0, the zero rep for n = 0; and x - y returns the rep of x + (-y).
C22_IntMultipleOfAdditiveElement ==
    [][(TheClass = "AbelianGroupElement" /\ WellFormed(klass[TheClass]))
       => /\ outcome'.call \in {"pow", "rmul"}
             => ReturnsRep(outcome', GroupPowerRep(klass[TheClass], outcome'.x, outcome'.n))
          /\ outcome'.call = "truediv"
             => ReturnsRep(outcome',
                           UserOp(klass[TheClass].op, Element_call(outcome'.x),
                                  UserInverse(klass[TheClass].inverse,
                                              Element_call(outcome'.y))))]_vars

(***************************************************************************)
(* TotalOrder: the comparison methods a class inherits from the protocol,  *)
(* run one call or return a step. frames is the call stack: the client's   *)
(* expression at the bottom, the running method on top.                    *)
(***************************************************************************)
\* Objects of one class that inherits TotalOrder and defines __le__ on a key.
OrderObjects == {[id |-> i, key |-> k] : i \in 1..2, k \in 0..(MaxRaw - 1)}

Comparisons == {"==", "!=", "<", "<=", ">=", ">"}

\* The method Python calls for a comparison operator; != is object.__ne__,
\* which inverts what __eq__ returns.
MethodOf(op) ==
    CASE op = "==" -> "__eq__"
      [] op = "!=" -> "__ne__"
      [] op = "<" -> "__lt__"
      [] op = "<=" -> "__le__"
      [] op = ">=" -> "__ge__"
      [] op = ">" -> "__gt__"

\* The user's __le__.
Le(a, b) == a.key <= b.key

PyBool(b) == IF b THEN "True" ELSE "False"

PyNot(v) == IF v = "True" THEN "False" ELSE "True"

Frame(fn, op, a, b) ==
    [fn |-> fn, op |-> op, self |-> a, other |-> b, pc |-> "start", val |-> "none"]

\* The comparison a frame evaluates next with a method of the protocol, or
\* "none" when it returns without one.
Callee(f) ==
    CASE f.fn = "client" -> MethodOf(f.op)
      [] f.fn = "__eq__" -> IF f.self = f.other THEN "none" ELSE "__eq__"
      [] f.fn = "__ne__" -> "__eq__"
      [] f.fn = "__lt__" -> IF Le(f.self, f.other) THEN "__ne__" ELSE "none"
      [] f.fn = "__ge__" -> "__lt__"
      [] OTHER -> "none"

\* What a frame returns: at "start" without a call, at "got" from the value
\* f.val its callee returned.
Returns(f) ==
    CASE f.fn = "__eq__" -> IF f.pc = "start" THEN "True"
                           ELSE IF f.val = "True" THEN "True" ELSE "False"
      [] f.fn = "__ne__" -> PyNot(f.val)
      [] f.fn = "__lt__" -> IF f.pc = "start" THEN "False" ELSE f.val
      [] f.fn = "__ge__" -> PyNot(f.val)
      [] f.fn = "__gt__" -> PyNot(PyBool(Le(f.self, f.other)))
      [] f.fn = "__le__" -> PyBool(Le(f.self, f.other))
      [] OTHER -> f.val

Top == frames[Len(frames)]

OrderInit == OrderAtRest /\ AlgebraAtRest /\ LoopAtRest /\ ProtocolAtRest

\* The client evaluates a op b; a and b are one object or two.
OEval ==
    /\ frames = <<>>
    /\ \E a \in OrderObjects, b \in OrderObjects, op \in Comparisons :
            /\ a.id = b.id => a = b
            /\ frames' = <<Frame("client", op, a, b)>>
    /\ UNCHANGED <<algebraVars, loopVars, protocolVars>>

\* The running frame calls a method.
OCall ==
    /\ frames # <<>>
    /\ Top.pc = "start"
    /\ Callee(Top) # "none"
    /\ Len(frames) < RecursionLimit
    /\ frames' = Append([frames EXCEPT ![Len(frames)].pc = "wait"],
                        Frame(Callee(Top), "", Top.self, Top.other))
    /\ UNCHANGED <<algebraVars, loopVars, protocolVars>>

\* The call would exceed the limit: RecursionError unwinds every frame, none
\* of which catches it, and reaches the client.
ORecursionError ==
    /\ frames # <<>>
    /\ Top.pc = "start"
    /\ Callee(Top) # "none"
    /\ Len(frames) >= RecursionLimit
    /\ frames' = <<[frames[1] EXCEPT !.pc = "done", !.val = "RecursionError"]>>
    /\ UNCHANGED <<algebraVars, loopVars, protocolVars>>

\* The running method returns to its caller.
OReturn ==
    /\ Len(frames) > 1
    /\ Top.pc = "got" \/ (Top.pc = "start" /\ Callee(Top) = "none")
    /\ frames' = [SubSeq(frames, 1, Len(frames) - 1) EXCEPT
                      ![Len(frames) - 1].pc = IF Len(frames) = 2 THEN "done" ELSE "got",
                      ![Len(frames) - 1].val = Returns(Top)]
    /\ UNCHANGED <<algebraVars, loopVars, protocolVars>>

\* The client takes the value or the exception.
OLeave ==
    /\ Len(frames) = 1
    /\ Top.pc = "done"
    /\ frames' = <<>>
    /\ UNCHANGED <<algebraVars, loopVars, protocolVars>>

OrderNext == OEval \/ OCall \/ ORecursionError \/ OReturn \/ OLeave

OrderSpec == OrderInit /\ [][OrderNext]_vars

Finished(op) == Len(frames) = 1 /\ frames[1].pc = "done" /\ frames[1].op = op

\* C30: for two distinct objects a and b of the same TotalOrder type the
\* evaluation of a == b ends with a boolean, and so do a != b, a < b and
\* a >= b, with a >= b the negation of a < b and a > b the negation of
\* a <= b.
C30_EqualityReturnsBoolean ==
    /\ \A op \in {"==", "!=", "<", ">="} :
            Finished(op) => frames[1].val \in {"True", "False"}
    /\ Finished(">") => frames[1].val = PyNot(PyBool(Le(frames[1].self, frames[1].other)))

====
